---------------------------- MODULE Spec2Model ----------------------------
(***************************************************************************)
(* Scheduled-job engine of agentica-daemon: the hybrid store               *)
(* (scheduler.yaml + scheduler_state.db), the schedule calculator, and the *)
(* job operations / timer loop / run finalization that drive them.         *)
(*                                                                         *)
(* Time is in abstract milliseconds 1..MaxTime (the wall clock is never 0).*)
(* updated_at_ms is left out: no code path reads it.                       *)
(* Every config entry of the file carries an "id" key.                     *)
(***************************************************************************)
EXTENDS Integers, Sequences, FiniteSets, TLC

NumJobs == 2
MaxTime == 3
MaxRuns == 3
MaxOps == 3

JobIds == 1..NumJobs
Times == 1..MaxTime

\* Python's None for the integer-valued fields.
NULL == -1
\* Python's None for last_status / last_error.
NoStatus == "none"
\* The value an expression has when the code raises.
ERR == [raised |-> TRUE]

\* ScheduledJob.max_retries default.
DefaultMaxRetries == 3
\* ScheduledJob.retry_delay_ms default (60000 ms), one unit of model time.
DefaultRetryDelayMs == 1

JobStatuses == {"pending", "active", "paused", "completed", "failed"}
RunStatuses == {"ok", "failed", "skipped", "timeout"}

-----------------------------------------------------------------------------
(* Generic helpers *)

DictGet(d, k, default) == IF k \in DOMAIN d THEN d[k] ELSE default

Range(s) == {s[i] : i \in 1..Len(s)}

RECURSIVE SeqRemove(_, _)
SeqRemove(s, x) ==
    IF s = <<>> THEN <<>>
    ELSE IF Head(s) = x THEN SeqRemove(Tail(s), x)
    ELSE <<Head(s)>> \o SeqRemove(Tail(s), x)

\* list.sort(key=...) is stable: equal keys keep their order.
RECURSIVE InsertByKey(_, _, _)
InsertByKey(sorted, x, key) ==
    IF sorted = <<>> THEN <<x>>
    ELSE IF key[Head(sorted)] <= key[x]
         THEN <<Head(sorted)>> \o InsertByKey(Tail(sorted), x, key)
         ELSE <<x>> \o sorted

RECURSIVE SortByKey(_, _)
SortByKey(s, key) ==
    IF s = <<>> THEN <<>>
    ELSE InsertByKey(SortByKey(SubSeq(s, 1, Len(s) - 1), key), s[Len(s)], key)

-----------------------------------------------------------------------------
(* Schedule calculator: schedule.py *)

AtSchedule(at_ms) == [kind |-> "at", at_ms |-> at_ms]
EverySchedule(interval_ms) == [kind |-> "every", interval_ms |-> interval_ms]

\* _compute_at_next that takes at_ms = now for a time in the future.
_compute_at_next_Inclusive(schedule, current_ms) ==
    IF schedule.at_ms >= current_ms THEN schedule.at_ms ELSE NULL

_compute_at_next(schedule, current_ms) ==
    IF schedule.at_ms > current_ms THEN schedule.at_ms ELSE NULL

RECURSIVE AlignToFuture(_, _, _)
AlignToFuture(next_run, interval_ms, current_ms) ==
    IF next_run <= current_ms
    THEN AlignToFuture(next_run + interval_ms, interval_ms, current_ms)
    ELSE next_run

\* _compute_every_next without the alignment to the future.
_compute_every_next_NoAlign(schedule, current_ms, last_run_at_ms) ==
    IF schedule.interval_ms <= 0 THEN NULL
    ELSE IF last_run_at_ms = NULL THEN current_ms + schedule.interval_ms
    ELSE last_run_at_ms + schedule.interval_ms

_compute_every_next(schedule, current_ms, last_run_at_ms) ==
    IF schedule.interval_ms <= 0 THEN NULL
    ELSE IF last_run_at_ms = NULL THEN current_ms + schedule.interval_ms
    ELSE AlignToFuture(last_run_at_ms + schedule.interval_ms,
                       schedule.interval_ms, current_ms)


\* CronSchedule.  The expression is held as the list of its fields, as
\* expression.split() yields them; a field is a number ("9"), a star ("*")
\* or a step ("*/7").
CronSchedule(expression, timezone) ==
    [kind |-> "cron", expression |-> expression, timezone |-> timezone]

FieldNum(n) == [form |-> "num", n |-> n]
FieldStar == [form |-> "star", n |-> 0]
FieldStep(n) == [form |-> "step", n |-> n]

\* Instants of the cron calculator are whole minutes counted from the start
\* of a month of LastDay days, in the local time of the schedule's timezone
\* (a timezone with a fixed offset).
LastDay == 31

\* datetime.fromtimestamp and datetime.timestamp.
FromTimestamp(t) ==
    [day |-> (t \div 1440) + 1, hour |-> (t % 1440) \div 60, minute |-> t % 60]

Timestamp(dt) == ((dt.day - 1) * 24 + dt.hour) * 60 + dt.minute

\* datetime.replace: ValueError for a field out of range.
ReplaceDay(dt, day) ==
    IF dt = ERR THEN ERR
    ELSE IF day \in 1..LastDay THEN [dt EXCEPT !.day = day] ELSE ERR

ReplaceHour(dt, hour) ==
    IF dt = ERR THEN ERR
    ELSE IF hour \in 0..23 THEN [dt EXCEPT !.hour = hour] ELSE ERR

ReplaceMinute(dt, minute) ==
    IF dt = ERR THEN ERR
    ELSE IF minute \in 0..59 THEN [dt EXCEPT !.minute = minute] ELSE ERR

\* The value returned for a datetime, None when an exception was raised.
TimestampOrNone(dt) == IF dt = ERR THEN NULL ELSE Timestamp(dt)

_compute_cron_fallback(schedule, current_ms) ==
    LET parts == schedule.expression IN
    IF Len(parts) # 5 THEN NULL
    ELSE
    LET minute == parts[1]
        hour == parts[2]
        day == parts[3]
        month == parts[4]
        weekday == parts[5]
        current_dt == FromTimestamp(current_ms)
    IN  IF /\ day = FieldStar /\ month = FieldStar /\ weekday = FieldStar
           /\ minute.form = "num" /\ hour.form = "num"
        THEN LET next_dt == ReplaceMinute(ReplaceHour(current_dt, hour.n), minute.n) IN
             IF next_dt = ERR THEN NULL
             ELSE IF Timestamp(next_dt) <= current_ms
                  THEN TimestampOrNone(ReplaceDay(next_dt, next_dt.day + 1))
                  ELSE Timestamp(next_dt)
        ELSE IF /\ minute.form = "step" /\ hour = FieldStar /\ day = FieldStar
                /\ month = FieldStar /\ weekday = FieldStar
        THEN IF minute.n = 0 THEN NULL
             ELSE LET next_minute == ((current_dt.minute \div minute.n) + 1) * minute.n IN
                  IF next_minute >= 60
                  THEN LET next_dt == ReplaceMinute(current_dt, next_minute % 60) IN
                       TimestampOrNone(ReplaceHour(next_dt, next_dt.hour + 1))
                  ELSE TimestampOrNone(ReplaceMinute(current_dt, next_minute))
        ELSE NULL

\* _compute_cron_next where croniter cannot be imported.
_compute_cron_next(schedule, current_ms) == _compute_cron_fallback(schedule, current_ms)

compute_next_run_at_ms(schedule, current_ms, last_run_at_ms) ==
    IF schedule.kind = "at" THEN _compute_at_next(schedule, current_ms)
    ELSE IF schedule.kind = "every"
         THEN _compute_every_next(schedule, current_ms, last_run_at_ms)
    ELSE IF schedule.kind = "cron" THEN _compute_cron_next(schedule, current_ms)
    ELSE NULL

-----------------------------------------------------------------------------
(* types.py: dict conversions of schedules and payloads *)

ScheduleToDict(s) ==
    IF s.kind = "at" THEN [kind |-> "at", at_ms |-> s.at_ms]
    ELSE IF s.kind = "every" THEN [kind |-> "every", interval_ms |-> s.interval_ms]
    ELSE [kind |-> "cron", expression |-> s.expression, timezone |-> s.timezone]

schedule_from_dict(data) ==
    LET kind == DictGet(data, "kind", "at") IN
    IF kind = "at" THEN AtSchedule(DictGet(data, "at_ms", 0))
    ELSE IF kind = "every" THEN EverySchedule(DictGet(data, "interval_ms", 0))
    ELSE IF kind = "cron"
         THEN CronSchedule(DictGet(data, "expression", <<>>),
                           DictGet(data, "timezone", "Asia/Shanghai"))
    ELSE ERR

SystemEventPayload(message) ==
    [kind |-> "system_event", message |-> message, channel |-> "telegram", chat_id |-> ""]
\* AgentTurnPayload.timeout_seconds default.
DefaultTimeoutSeconds == 300

AgentTurnPayload(prompt) ==
    [kind |-> "agent_turn", prompt |-> prompt, notify_chat_id |-> "",
     timeout_seconds |-> DefaultTimeoutSeconds]

WebhookPayload(url) ==
    [kind |-> "webhook", url |-> url, method |-> "POST"]

PayloadToDict(p) == p

payload_from_dict(data) ==
    LET kind == DictGet(data, "kind", "agent_turn") IN
    IF kind = "system_event"
    THEN [kind |-> "system_event", message |-> DictGet(data, "message", ""),
          channel |-> DictGet(data, "channel", "telegram"),
          chat_id |-> DictGet(data, "chat_id", "")]
    ELSE IF kind = "agent_turn"
    THEN [kind |-> "agent_turn", prompt |-> DictGet(data, "prompt", ""),
          notify_chat_id |-> DictGet(data, "notify_chat_id", ""),
          timeout_seconds |-> DictGet(data, "timeout_seconds", DefaultTimeoutSeconds)]
    ELSE IF kind = "webhook"
    THEN [kind |-> "webhook", url |-> DictGet(data, "url", ""),
          method |-> DictGet(data, "method", "POST")]
    ELSE IF kind = "task_chain"
    THEN [kind |-> "task_chain", next_job_id |-> DictGet(data, "next_job_id", ""),
          on_status |-> DictGet(data, "on_status", {"ok"})]
    ELSE ERR

TaskChainPayload(next_job_id, on_status) ==
    [kind |-> "task_chain", next_job_id |-> next_job_id, on_status |-> on_status]

TaskChainFromDict(data) ==
    TaskChainPayload(DictGet(data, "next_job_id", ""), DictGet(data, "on_status", {"ok"}))

\* SessionTarget: the session a run is dispatched to.
SessionTarget(kind, trigger_heartbeat, report_to_main) ==
    [kind |-> kind, trigger_heartbeat |-> trigger_heartbeat,
     report_to_main |-> report_to_main]

\* SessionTarget(): isolated, with both flags set.
DefaultTarget == SessionTarget("isolated", TRUE, TRUE)

SessionTargetToDict(t) == t

SessionTargetFromDict(data) ==
    SessionTarget(DictGet(data, "kind", DefaultTarget.kind),
                  DictGet(data, "trigger_heartbeat", DefaultTarget.trigger_heartbeat),
                  DictGet(data, "report_to_main", DefaultTarget.report_to_main))

-----------------------------------------------------------------------------
(* models.py: ScheduledJob with its JobState, flattened into one record *)

NewJob(name, description, enabled, schedule, payload, max_retries, retry_delay_ms, on_complete, created_at_ms) ==
    [name |-> name, description |-> description, enabled |-> enabled,
     schedule |-> schedule, payload |-> payload, max_retries |-> max_retries,
     retry_delay_ms |-> retry_delay_ms, on_complete |-> on_complete,
     user_id |-> "", agent_id |-> "main", target |-> DefaultTarget,
     status |-> "pending",
     next_run_at_ms |-> NULL, last_run_at_ms |-> NULL, last_status |-> NoStatus,
     run_count |-> 0, failure_count |-> 0, consecutive_failures |-> 0,
     last_error |-> NoStatus,
     created_at_ms |-> created_at_ms]

\* JobPatch.apply that also writes the fields the patch does not set, as the
\* dataclass defaults of a new job.
JobPatchApply_Overwrite(patch, job) ==
    [job EXCEPT
        !.name = DictGet(patch, "name", ""),
        !.description = DictGet(patch, "description", ""),
        !.schedule = DictGet(patch, "schedule", AtSchedule(0)),
        !.payload = DictGet(patch, "payload", AgentTurnPayload("")),
        !.enabled = DictGet(patch, "enabled", TRUE),
        !.max_retries = DictGet(patch, "max_retries", DefaultMaxRetries)]

\* JobPatch.apply: a patch is a record holding only the fields that are set.
JobPatchApply(patch, job) ==
    [job EXCEPT
        !.name = IF "name" \in DOMAIN patch THEN patch.name ELSE @,
        !.description = IF "description" \in DOMAIN patch THEN patch.description ELSE @,
        !.schedule = IF "schedule" \in DOMAIN patch THEN patch.schedule ELSE @,
        !.payload = IF "payload" \in DOMAIN patch THEN patch.payload ELSE @,
        !.enabled = IF "enabled" \in DOMAIN patch THEN patch.enabled ELSE @,
        !.max_retries = IF "max_retries" \in DOMAIN patch THEN patch.max_retries ELSE @]

-----------------------------------------------------------------------------
(* store.py: YAML <-> job conversion *)

Opt(cond, k, v) == IF cond THEN k :> v ELSE <<>>

_job_to_yaml_dict(id, job) ==
    [id |-> id, name |-> job.name, enabled |-> job.enabled,
     schedule |-> ScheduleToDict(job.schedule),
     payload |-> PayloadToDict(job.payload)]
    @@ Opt(job.description # "", "description", job.description)
    @@ Opt(job.user_id # "", "user_id", job.user_id)
    @@ Opt(job.agent_id # "" /\ job.agent_id # "main", "agent_id", job.agent_id)
    @@ Opt(DictGet(SessionTargetToDict(job.target), "kind", NULL) # "isolated",
           "target", SessionTargetToDict(job.target))
    @@ Opt(job.max_retries # DefaultMaxRetries, "max_retries", job.max_retries)
    @@ Opt(job.retry_delay_ms # DefaultRetryDelayMs, "retry_delay_ms", job.retry_delay_ms)
    @@ Opt(job.on_complete # <<>>, "on_complete", job.on_complete)

\* ERR when schedule_from_dict or payload_from_dict raises.
_yaml_dict_to_job(d, now_ms) ==
    LET sched == IF "schedule" \in DOMAIN d THEN schedule_from_dict(d.schedule)
                 ELSE AtSchedule(0)
        payl  == IF "payload" \in DOMAIN d THEN payload_from_dict(d.payload)
                 ELSE AgentTurnPayload("")
        chain == IF "on_complete" \in DOMAIN d
                 THEN [i \in 1..Len(d.on_complete) |-> TaskChainFromDict(d.on_complete[i])]
                 ELSE <<>>
    IN  IF sched = ERR \/ payl = ERR THEN ERR
        ELSE [NewJob(DictGet(d, "name", ""), DictGet(d, "description", ""),
                     DictGet(d, "enabled", TRUE), sched, payl,
                     DictGet(d, "max_retries", DefaultMaxRetries),
                     DictGet(d, "retry_delay_ms", DefaultRetryDelayMs),
                     chain, now_ms)
              EXCEPT !.user_id = DictGet(d, "user_id", ""),
                     !.agent_id = DictGet(d, "agent_id", "main"),
                     !.target = IF "target" \in DOMAIN d
                                THEN SessionTargetFromDict(d.target) ELSE @]

-----------------------------------------------------------------------------
(* store.py: JobStore.  A store value st holds                              *)
(*   jobs, order : self._jobs (a dict: values and insertion order)          *)
(*   yaml        : scheduler.yaml                                           *)
(*   job_state   : table job_state, job_id -> row                           *)
(*   job_runs    : table job_runs, the set of its rows                      *)

EmptyFile == [exists |-> TRUE, readable |-> TRUE, entries |-> <<>>]
NoRuns == [s \in RunStatuses |-> 0]

\* A JobRun as save_run writes it: id, job_id, status, started_at_ms
\* (finished_at_ms, result, error and duration_ms are left out).  The id
\* is empty until save_run gives the run one.
JobRun(job_id, run_status, started_at_ms) ==
    [id |-> "", job_id |-> job_id, status |-> run_status,
     started_at_ms |-> started_at_ms]

\* f"run_{uuid4().hex[:12]}": an id no row of the table has.
FreshRunId(runs, job_id) ==
    LET used == {r.id : r \in runs}
        name(n) == "run_" \o ToString(job_id) \o "_" \o ToString(n)
        free == {n \in 1..(Cardinality(runs) + 1) : name(n) \notin used}
    IN  name(CHOOSE n \in free : \A o \in free : n <= o)

\* The number of rows per job and status.
RunCounts(runs) ==
    [id \in JobIds |-> [s \in RunStatuses |->
        Cardinality({r \in runs : r.job_id = id /\ r.status = s})]]

_write_yaml(st) ==
    LET key == [id \in DOMAIN st.jobs |-> st.jobs[id].created_at_ms]
        jobs_list == SortByKey(st.order, key)
    IN  [st EXCEPT !.yaml =
            [exists |-> TRUE, readable |-> TRUE,
             entries |-> [i \in 1..Len(jobs_list) |->
                            _job_to_yaml_dict(jobs_list[i], st.jobs[jobs_list[i]])]]]

\* The for loop of _load_yaml: an entry that raises ends the loop, the jobs
\* read before it stay in self._jobs.
RECURSIVE LoadEntries(_, _, _, _)
LoadEntries(entries, jobs, order, now_ms) ==
    IF entries = <<>> THEN [jobs |-> jobs, order |-> order]
    ELSE LET d == Head(entries)
             job == _yaml_dict_to_job(d, now_ms)
         IN  IF job = ERR THEN [jobs |-> jobs, order |-> order]
             ELSE LoadEntries(Tail(entries), (d.id :> job) @@ jobs,
                              IF d.id \in DOMAIN jobs THEN order ELSE Append(order, d.id),
                              now_ms)

_load_yaml(st, now_ms) ==
    LET cleared == [st EXCEPT !.jobs = <<>>, !.order = <<>>] IN
    IF ~st.yaml.exists THEN _write_yaml(cleared)
    ELSE IF ~st.yaml.readable THEN cleared
    ELSE LET got == LoadEntries(st.yaml.entries, <<>>, <<>>, now_ms)
         IN  [cleared EXCEPT !.jobs = got.jobs, !.order = got.order]

RowOf(job) ==
    [status |-> job.status, next_run_at_ms |-> job.next_run_at_ms,
     last_run_at_ms |-> job.last_run_at_ms, last_status |-> job.last_status,
     run_count |-> job.run_count, failure_count |-> job.failure_count,
     consecutive_failures |-> job.consecutive_failures,
     last_error |-> job.last_error, created_at_ms |-> job.created_at_ms]

\* INSERT ... ON CONFLICT(job_id) DO UPDATE: created_at_ms is not updated.
_upsert_state(job_state, id, job) ==
    IF id \in DOMAIN job_state
    THEN [job_state EXCEPT ![id] =
            [RowOf(job) EXCEPT !.created_at_ms = job_state[id].created_at_ms]]
    ELSE (id :> RowOf(job)) @@ job_state

\* AttachRow that leaves the job with the state of a new job.
AttachRow_Fresh(job, row) == job

AttachRow(job, row) ==
    [job EXCEPT !.status = row.status, !.next_run_at_ms = row.next_run_at_ms,
                !.last_run_at_ms = row.last_run_at_ms, !.last_status = row.last_status,
                !.run_count = row.run_count, !.failure_count = row.failure_count,
                !.consecutive_failures = row.consecutive_failures,
                !.last_error = row.last_error, !.created_at_ms = row.created_at_ms]

\* _reconcile_state without the insert of the state row of a new job.
_reconcile_state_NoInsert(st, now_ms) ==
    LET state_rows == st.job_state
        jobs2 == [id \in DOMAIN st.jobs |->
                    IF id \in DOMAIN state_rows
                    THEN AttachRow(st.jobs[id], state_rows[id])
                    ELSE [st.jobs[id] EXCEPT !.created_at_ms = now_ms]]
    IN  [st EXCEPT !.jobs = jobs2,
                   !.job_state = [id \in DOMAIN state_rows \cap DOMAIN st.jobs |->
                                    state_rows[id]]]

_reconcile_state(st, now_ms) ==
    LET state_rows == st.job_state
        jobs2 == [id \in DOMAIN st.jobs |->
                    IF id \in DOMAIN state_rows
                    THEN AttachRow(st.jobs[id], state_rows[id])
                    ELSE [st.jobs[id] EXCEPT !.created_at_ms = now_ms]]
        orphan_ids == DOMAIN state_rows \ DOMAIN st.jobs
    IN  [st EXCEPT !.jobs = jobs2,
                   !.job_state = [id \in (DOMAIN state_rows \cup DOMAIN st.jobs) \ orphan_ids |->
                                    IF id \in DOMAIN state_rows THEN state_rows[id]
                                    ELSE RowOf(jobs2[id])]]

initialize(st, now_ms) == _reconcile_state(_load_yaml(st, now_ms), now_ms)

reload_yaml(st, now_ms) == _reconcile_state(_load_yaml(st, now_ms), now_ms)

\* The value reload_yaml returns: len(self._jobs).
reload_yaml_count(st, now_ms) == Cardinality(DOMAIN reload_yaml(st, now_ms).jobs)

\* save that lists the job once more in self._jobs on every call.
save_Appending(st, id, job) ==
    LET is_new == id \notin DOMAIN st.jobs
        st1 == [st EXCEPT !.jobs = (id :> job) @@ st.jobs,
                          !.order = Append(st.order, id),
                          !.job_state = _upsert_state(st.job_state, id, job)]
    IN  IF is_new THEN _write_yaml(st1) ELSE st1

save(st, id, job) ==
    LET is_new == id \notin DOMAIN st.jobs
        st1 == [st EXCEPT !.jobs = (id :> job) @@ st.jobs,
                          !.order = IF is_new THEN Append(st.order, id) ELSE st.order,
                          !.job_state = _upsert_state(st.job_state, id, job)]
    IN  IF is_new THEN _write_yaml(st1) ELSE st1

delete(st, id) ==
    IF id \notin DOMAIN st.jobs THEN st
    ELSE _write_yaml(
            [st EXCEPT !.jobs = [x \in DOMAIN st.jobs \ {id} |-> st.jobs[x]],
                       !.order = SeqRemove(st.order, id),
                       !.job_state = [x \in DOMAIN st.job_state \ {id} |-> st.job_state[x]],
                       !.job_runs = {r \in st.job_runs : r.job_id # id}])

\* save_run that writes no record.
save_run_Dropped(st, run) == st

\* INSERT OR REPLACE keyed by the run id; a run without id gets a new one.
save_run(st, run) ==
    LET row == IF run.id = ""
               THEN [run EXCEPT !.id = FreshRunId(st.job_runs, run.job_id)]
               ELSE run
    IN  [st EXCEPT !.job_runs = {r \in st.job_runs : r.id # row.id} \cup {row}]

\* DELETE FROM job_runs WHERE started_at_ms < before_ms.
delete_old_runs(st, before_ms) ==
    [st EXCEPT !.job_runs = {r \in st.job_runs : r.started_at_ms >= before_ms}]


export_to_yaml(st) == _write_yaml(st)

\* "job.state.next_run_at_ms and ..." is false for None and for 0.
IsDue(job, before_ms) ==
    /\ job.enabled
    /\ job.status = "active"
    /\ job.next_run_at_ms # NULL /\ job.next_run_at_ms # 0
    /\ job.next_run_at_ms <= before_ms

\* get_due_jobs without the sort.
get_due_jobs_Unsorted(st, before_ms) ==
    SelectSeq(st.order, LAMBDA id : IsDue(st.jobs[id], before_ms))

\* get_due_jobs without the status filter.
get_due_jobs_AnyStatus(st, before_ms) ==
    SelectSeq(st.order, LAMBDA id : /\ st.jobs[id].enabled
                                    /\ st.jobs[id].next_run_at_ms # NULL
                                    /\ st.jobs[id].next_run_at_ms <= before_ms)

get_due_jobs(st, before_ms) ==
    LET due == SelectSeq(st.order, LAMBDA id : IsDue(st.jobs[id], before_ms))
        key == [id \in DOMAIN st.jobs |->
                  IF st.jobs[id].next_run_at_ms = NULL THEN 0
                  ELSE st.jobs[id].next_run_at_ms]
    IN  SortByKey(due, key)

-----------------------------------------------------------------------------
(* State *)

VARIABLES
    now,        \* wall clock
    jobs,       \* JobStore._jobs: job_id -> ScheduledJob
    order,      \* insertion order of JobStore._jobs
    yaml,       \* scheduler.yaml
    job_state,  \* table job_state
    job_runs,   \* table job_runs
    inflight,   \* executor tasks that have started and not finished
    deleted,    \* ids removed by Delete and not created again since
    ops,        \* number of calls and hand edits made so far
    exec,       \* the JobExecutor.execute call under way
    fs          \* the config path and its temp path, as files on disk

vars == <<now, jobs, order, yaml, job_state, job_runs, inflight, deleted, ops, exec, fs>>

\* No execute call, and no view of the files on disk.
NoCall == [pc |-> "none"]
NoFiles == [pc |-> "none"]

St == [jobs |-> jobs, order |-> order, yaml |-> yaml,
       job_state |-> job_state, job_runs |-> job_runs]

SetStore(st) ==
    /\ jobs' = st.jobs
    /\ order' = st.order
    /\ yaml' = st.yaml
    /\ job_state' = st.job_state
    /\ job_runs' = st.job_runs

EmptyStore ==
    [jobs |-> <<>>, order |-> <<>>,
     yaml |-> [exists |-> FALSE, readable |-> TRUE, entries |-> <<>>],
     job_state |-> <<>>, job_runs |-> {}]

\* JobStore(data_dir) followed by initialize(), on an empty data directory
\* or on one where the user has put a scheduler.yaml.
InitStore(st) ==
    /\ now = 1
    /\ jobs = st.jobs
    /\ order = st.order
    /\ yaml = st.yaml
    /\ job_state = st.job_state
    /\ job_runs = st.job_runs
    /\ inflight = <<>>
    /\ deleted = {}
    /\ ops = 0
    /\ exec = NoCall
    /\ fs = NoFiles

-----------------------------------------------------------------------------
(* Executor tasks.  A task holds a reference to the job object it was      *)
(* started with.  While that object is the one in self._jobs the task is    *)
(* attached; once delete() or _load_yaml() has dropped or replaced the      *)
(* object, the task holds the old object (obj) by itself.                   *)

NoObj == [none |-> TRUE]

Task(id, kind, started_at_ms) ==
    [id |-> id, kind |-> kind, started_at_ms |-> started_at_ms,
     detached |-> FALSE, obj |-> NoObj]

InFlightIds(infl) == {infl[i].id : i \in 1..Len(infl)}

RunsInFlight(infl, id) == Cardinality({i \in 1..Len(infl) : infl[i].id = id})

Detach(infl, ids, js) ==
    [i \in 1..Len(infl) |->
        IF ~infl[i].detached /\ infl[i].id \in ids
        THEN [infl[i] EXCEPT !.detached = TRUE, !.obj = js[infl[i].id]]
        ELSE infl[i]]

RemoveAt(s, i) == SubSeq(s, 1, i - 1) \o SubSeq(s, i + 1, Len(s))

TaskJob(t, js) == IF t.detached THEN t.obj ELSE js[t.id]

ExecutedRuns(runs) ==
    Cardinality({r \in runs : r.status \in {"ok", "failed", "timeout"}})

RunBudgetLeft == ExecutedRuns(job_runs) + Len(inflight) < MaxRuns

\* CanStart without the check.
CanStart_Always(infl, id) == TRUE

\* Per-job concurrency policy: a job does not execute in parallel with itself.
CanStart(infl, id) == id \notin InFlightIds(infl)

-----------------------------------------------------------------------------
(* Job operations (service facade over the store) *)

FileIds(y) == {y.entries[i].id : i \in 1..Len(y.entries)}

\* One more call of the programmatic interface, or one more hand edit.
Op == ops < MaxOps /\ ops' = ops + 1

\* A uuid4 id: one no part of the system has seen.
FreshId(id) ==
    /\ id \notin DOMAIN jobs
    /\ id \notin DOMAIN job_state
    /\ id \notin FileIds(yaml)
    /\ id \notin InFlightIds(inflight)
    /\ RunCounts(job_runs)[id] = NoRuns

CreateSchedules == {AtSchedule(1), AtSchedule(2), EverySchedule(1), EverySchedule(2)}
CreateRetries == {0, 1}

\* Create(spec): status active (completed for an at-schedule in the past),
\* next_run_at_ms computed, persisted through JobStore.save.
CreatedJob(schedule, max_retries, now_ms) ==
    LET next == compute_next_run_at_ms(schedule, now_ms, NULL)
        job == NewJob("n1", "", TRUE, schedule, SystemEventPayload("hi"),
                      max_retries, DefaultRetryDelayMs, <<>>, now_ms)
    IN  [job EXCEPT !.next_run_at_ms = next,
                    !.status = IF schedule.kind = "at" /\ next = NULL
                               THEN "completed" ELSE "active"]

CreateJob(id, schedule, max_retries) ==
    /\ Op
    /\ FreshId(id)
    /\ SetStore(save(St, id, CreatedJob(schedule, max_retries, now)))
    /\ deleted' = deleted \ {id}
    /\ UNCHANGED <<exec, fs, now, inflight>>

Patches ==
    { [name |-> "n2"], [enabled |-> FALSE], [enabled |-> TRUE],
      [max_retries |-> 0], [schedule |-> EverySchedule(2)],
      [description |-> "d", payload |-> AgentTurnPayload("x")] }

\* Patch(id, patch): JobPatch.apply, next_run_at_ms recomputed with
\* last_run_at_ms = null if the schedule changed, JobStore.save.
PatchedJob(job, patch, now_ms) ==
    LET j == JobPatchApply(patch, job) IN
    IF "schedule" \in DOMAIN patch /\ patch.schedule # job.schedule
    THEN [j EXCEPT !.next_run_at_ms = compute_next_run_at_ms(j.schedule, now_ms, NULL)]
    ELSE j

PatchJob(id, patch) ==
    /\ Op
    /\ id \in DOMAIN jobs
    /\ PatchedJob(jobs[id], patch, now) # jobs[id]
    /\ SetStore(save(St, id, PatchedJob(jobs[id], patch, now)))
    /\ UNCHANGED <<exec, fs, now, inflight, deleted>>

PauseJob(id) ==
    /\ Op
    /\ id \in DOMAIN jobs
    /\ jobs[id].status = "active"
    /\ SetStore(save(St, id, [jobs[id] EXCEPT !.status = "paused"]))
    /\ UNCHANGED <<exec, fs, now, inflight, deleted>>

ResumeJob(id) ==
    /\ Op
    /\ id \in DOMAIN jobs
    /\ jobs[id].status = "paused"
    /\ SetStore(save(St, id,
            [jobs[id] EXCEPT !.status = "active",
                             !.next_run_at_ms =
                                compute_next_run_at_ms(jobs[id].schedule, now,
                                                       jobs[id].last_run_at_ms)]))
    /\ UNCHANGED <<exec, fs, now, inflight, deleted>>

\* Delete(id): JobStore.delete.  A task running the job keeps its object.
DeleteJob(id) ==
    /\ Op
    /\ id \in DOMAIN jobs
    /\ SetStore(delete(St, id))
    /\ inflight' = Detach(inflight, {id}, jobs)
    /\ deleted' = deleted \cup {id}
    /\ UNCHANGED <<exec, fs, now>>

\* RunOnce that arms the job for the current instant instead of starting
\* the run itself.
RunOnce_Rearm(id) ==
    /\ Op
    /\ id \in DOMAIN jobs
    /\ RunBudgetLeft
    /\ CanStart(inflight, id)
    /\ SetStore(save(St, id, [jobs[id] EXCEPT !.next_run_at_ms = now]))
    /\ inflight' = Append(inflight, Task(id, "manual", now))
    /\ UNCHANGED <<exec, fs, now, deleted>>

\* RunOnce(id): start a run now, outside the normal schedule.
RunOnce(id) ==
    /\ Op
    /\ id \in DOMAIN jobs
    /\ RunBudgetLeft
    /\ CanStart(inflight, id)
    /\ inflight' = Append(inflight, Task(id, "manual", now))
    /\ UNCHANGED <<exec, fs, now, jobs, order, yaml, job_state, job_runs, deleted>>

\* ReloadConfig(): JobStore.reload_yaml; every object of self._jobs is replaced.
Reload ==
    /\ Op
    /\ SetStore(reload_yaml(St, now))
    /\ inflight' = Detach(inflight, DOMAIN jobs, jobs)
    /\ UNCHANGED <<exec, fs, now, deleted>>

\* Missed firings at the start of the service: an active At job that never
\* ran and whose at_ms has passed becomes completed, with a skipped run
\* record; its payload is not executed.
RECURSIVE MissedAt(_, _, _)
MissedAt(ids, st, now_ms) ==
    IF ids = <<>> THEN st
    ELSE LET id == Head(ids)
             job == st.jobs[id]
         IN  IF /\ job.status = "active"
                /\ job.schedule.kind = "at"
                /\ job.last_run_at_ms = NULL
                /\ job.schedule.at_ms < now_ms
             THEN MissedAt(Tail(ids),
                           save(save_run(st, JobRun(id, "skipped", now_ms)), id,
                                [job EXCEPT !.status = "completed",
                                            !.next_run_at_ms = NULL]),
                           now_ms)
             ELSE MissedAt(Tail(ids), st, now_ms)

\* The service starts: JobStore.initialize, then the missed firings.
StartService(st, now_ms) ==
    LET st1 == initialize(st, now_ms) IN MissedAt(st1.order, st1, now_ms)

\* Process restart: the tasks are gone, memory is rebuilt by initialize().
Restart ==
    /\ Op
    /\ SetStore(StartService([St EXCEPT !.jobs = <<>>, !.order = <<>>], now))
    /\ inflight' = <<>>
    /\ UNCHANGED <<exec, fs, now, deleted>>

\* The state database is deleted while the process is down, then restart.
RestartFreshDb ==
    /\ Op
    /\ SetStore(StartService([St EXCEPT !.jobs = <<>>, !.order = <<>>,
                                       !.job_state = <<>>,
                                       !.job_runs = {}], now))
    /\ inflight' = <<>>
    /\ UNCHANGED <<exec, fs, now, deleted>>

Export ==
    /\ Op
    /\ export_to_yaml(St).yaml # yaml
    /\ SetStore(export_to_yaml(St))
    /\ UNCHANGED <<exec, fs, now, inflight, deleted>>

-----------------------------------------------------------------------------
(* The user edits scheduler.yaml by hand *)

GoodEntry(id) ==
    [id |-> id, name |-> "n1", enabled |-> TRUE,
     schedule |-> [kind |-> "every", interval_ms |-> 1],
     payload |-> [kind |-> "system_event", message |-> "hi"]]

ChainEntry(id, next) ==
    GoodEntry(id) @@ [on_complete |-> <<[next_job_id |-> next, on_status |-> {"ok"}]>>]

BadEntry(id) ==
    [id |-> id, name |-> "n1", schedule |-> [kind |-> "bogus"]]

HandEntries(id) ==
    {GoodEntry(id), BadEntry(id)} \cup {ChainEntry(id, n) : n \in JobIds \ {id}}

HandAdd(id, entry) ==
    /\ Op
    /\ yaml.exists
    /\ id \notin FileIds(yaml)
    /\ id \notin InFlightIds(inflight)
    /\ id \notin DOMAIN jobs
    /\ yaml' = [yaml EXCEPT !.entries = Append(@, entry)]
    /\ deleted' = deleted \ {id}
    /\ UNCHANGED <<exec, fs, now, jobs, order, job_state, job_runs, inflight>>

HandRemove(i) ==
    /\ Op
    /\ yaml.exists
    /\ i \in 1..Len(yaml.entries)
    /\ yaml' = [yaml EXCEPT !.entries = RemoveAt(@, i)]
    /\ UNCHANGED <<exec, fs, now, jobs, order, job_state, job_runs, inflight, deleted>>

\* A syntax error typed into the file, and its repair.
HandBreak ==
    /\ Op
    /\ yaml.exists /\ yaml.readable
    /\ yaml' = [yaml EXCEPT !.readable = FALSE]
    /\ UNCHANGED <<exec, fs, now, jobs, order, job_state, job_runs, inflight, deleted>>

HandRepair ==
    /\ Op
    /\ yaml.exists /\ ~yaml.readable
    /\ yaml' = [yaml EXCEPT !.readable = TRUE]
    /\ UNCHANGED <<exec, fs, now, jobs, order, job_state, job_runs, inflight, deleted>>

-----------------------------------------------------------------------------
(* Timer loop and run finalization *)

\* The timer's pass over the due jobs: a due job whose previous run has not
\* finished is dropped, recorded as skipped, and its next fire recomputed
\* from the current time; the others are handed to the executor.
RECURSIVE TickLoop(_, _, _, _)
TickLoop(due, st, infl, now_ms) ==
    IF due = <<>> THEN [st |-> st, infl |-> infl]
    ELSE LET id == Head(due)
             job == st.jobs[id]
         IN  IF CanStart(infl, id)
             THEN TickLoop(Tail(due), st, Append(infl, Task(id, "timer", now_ms)), now_ms)
             ELSE TickLoop(Tail(due),
                           save(save_run(st, JobRun(id, "skipped", now_ms)), id,
                                [job EXCEPT !.next_run_at_ms =
                                    compute_next_run_at_ms(job.schedule, now_ms,
                                                           job.last_run_at_ms)]),
                           infl, now_ms)

Tick ==
    /\ RunBudgetLeft
    /\ get_due_jobs(St, now) # <<>>
    /\ LET r == TickLoop(get_due_jobs(St, now), St, inflight, now) IN
        /\ SetStore(r.st)
        /\ inflight' = r.infl
    /\ UNCHANGED <<exec, fs, now, deleted, ops>>

\* Finalized with the retry bound off by one.
Finalized_OffByOne(job, kind, run_status, started_at_ms, now_ms) ==
    LET counted == [job EXCEPT !.run_count = @ + 1,
                               !.last_run_at_ms = started_at_ms,
                               !.last_status = run_status]
    IN  IF run_status = "ok"
        THEN LET okj == [counted EXCEPT !.consecutive_failures = 0,
                                        !.last_error = NoStatus]
             IN  IF kind # "timer" THEN okj
                 ELSE IF okj.schedule.kind = "at"
                 THEN [okj EXCEPT !.status = "completed", !.next_run_at_ms = NULL]
                 ELSE [okj EXCEPT !.next_run_at_ms =
                          compute_next_run_at_ms(okj.schedule, now_ms, started_at_ms)]
        ELSE LET failj == [counted EXCEPT !.consecutive_failures = @ + 1,
                                          !.failure_count = @ + 1,
                                          !.last_error = "error"]
             IN  IF failj.consecutive_failures < failj.max_retries
                 THEN IF kind # "timer" THEN failj
                      ELSE [failj EXCEPT !.next_run_at_ms = now_ms + failj.retry_delay_ms]
                 ELSE [failj EXCEPT !.status = "failed"]

\* Finalized that treats every run as a timer-started one.
Finalized_AlwaysReschedule(job, kind, run_status, started_at_ms, now_ms) ==
    LET counted == [job EXCEPT !.run_count = @ + 1,
                               !.last_run_at_ms = started_at_ms,
                               !.last_status = run_status]
    IN  IF run_status = "ok"
        THEN LET okj == [counted EXCEPT !.consecutive_failures = 0,
                                        !.last_error = NoStatus]
             IN  IF okj.schedule.kind = "at"
                 THEN [okj EXCEPT !.status = "completed", !.next_run_at_ms = NULL]
                 ELSE [okj EXCEPT !.next_run_at_ms =
                          compute_next_run_at_ms(okj.schedule, now_ms, started_at_ms)]
        ELSE LET failj == [counted EXCEPT !.consecutive_failures = @ + 1,
                                          !.failure_count = @ + 1,
                                          !.last_error = "error"]
             IN  IF failj.consecutive_failures <= failj.max_retries
                 THEN [failj EXCEPT !.next_run_at_ms = now_ms + failj.retry_delay_ms]
                 ELSE [failj EXCEPT !.status = "failed"]

\* JobState after a run of the given kind ended with the given status.  A
\* run started by RunOnce or by a task chain counts like any other run but
\* never sets next_run_at_ms.
Finalized(job, kind, run_status, started_at_ms, now_ms) ==
    LET counted == [job EXCEPT !.run_count = @ + 1,
                               !.last_run_at_ms = started_at_ms,
                               !.last_status = run_status]
    IN  IF run_status = "ok"
        THEN LET okj == [counted EXCEPT !.consecutive_failures = 0,
                                        !.last_error = NoStatus]
             IN  IF kind # "timer" THEN okj
                 ELSE IF okj.schedule.kind = "at"
                 THEN [okj EXCEPT !.status = "completed", !.next_run_at_ms = NULL]
                 ELSE [okj EXCEPT !.next_run_at_ms =
                          compute_next_run_at_ms(okj.schedule, now_ms, started_at_ms)]
        ELSE LET failj == [counted EXCEPT !.consecutive_failures = @ + 1,
                                          !.failure_count = @ + 1,
                                          !.last_error = "error"]
             IN  IF failj.consecutive_failures <= failj.max_retries
                 THEN IF kind # "timer" THEN failj
                      ELSE [failj EXCEPT !.next_run_at_ms = now_ms + failj.retry_delay_ms]
                 ELSE [failj EXCEPT !.status = "failed"]

\* ChainLoop that triggers every entry, whatever the run's status.
RECURSIVE ChainLoop_AnyStatus(_, _, _, _, _)
ChainLoop_AnyStatus(chain, run_status, st, infl, now_ms) ==
    IF chain = <<>> THEN infl
    ELSE LET e == Head(chain)
             hit == /\ e.next_job_id \in DOMAIN st.jobs
                    /\ CanStart(infl, e.next_job_id)
                    /\ ExecutedRuns(st.job_runs) + Len(infl) < MaxRuns
         IN  ChainLoop_AnyStatus(Tail(chain), run_status, st,
                       IF hit THEN Append(infl, Task(e.next_job_id, "chain", now_ms))
                       ELSE infl,
                       now_ms)

\* on_complete: each entry whose on_status lists the run's status triggers
\* its next_job_id at once, if that job exists and is not running.
RECURSIVE ChainLoop(_, _, _, _, _)
ChainLoop(chain, run_status, st, infl, now_ms) ==
    IF chain = <<>> THEN infl
    ELSE LET e == Head(chain)
             hit == /\ run_status \in e.on_status
                    /\ e.next_job_id \in DOMAIN st.jobs
                    /\ CanStart(infl, e.next_job_id)
                    /\ ExecutedRuns(st.job_runs) + Len(infl) < MaxRuns
         IN  ChainLoop(Tail(chain), run_status, st,
                       IF hit THEN Append(infl, Task(e.next_job_id, "chain", now_ms))
                       ELSE infl,
                       now_ms)

\* The run of task i ends: the run record and the job's new state are
\* written through JobStore.save_run and JobStore.save.
FinishRun(i, run_status) ==
    /\ i \in 1..Len(inflight)
    /\ LET t == inflight[i]
           job == TaskJob(t, jobs)
           job2 == Finalized(job, t.kind, run_status, t.started_at_ms, now)
           st2 == save(save_run(St, JobRun(t.id, run_status, t.started_at_ms)), t.id, job2)
           rest == RemoveAt(inflight, i)
           rest2 == IF t.detached THEN Detach(rest, {t.id} \cap DOMAIN jobs, jobs) ELSE rest
       IN  /\ SetStore(st2)
           /\ inflight' = ChainLoop(job2.on_complete, run_status, st2, rest2, now)
    /\ UNCHANGED <<exec, fs, now, deleted, ops>>

\* JobStore.delete_old_runs(before_ms): the runs started before before_ms
\* leave the table; jobs, their state and the config file stay.
DeleteOldRuns(before_ms) ==
    /\ Op
    /\ job_runs' = delete_old_runs(St, before_ms).job_runs
    /\ UNCHANGED <<exec, fs, now, jobs, order, yaml, job_state, inflight, deleted>>

Advance ==
    /\ now < MaxTime
    /\ now' = now + 1
    /\ UNCHANGED <<exec, fs, jobs, order, yaml, job_state, job_runs, inflight, deleted, ops>>

-----------------------------------------------------------------------------
\* The arguments of delete_old_runs.
PruneTimes == 2..MaxTime

UserFile ==
    [exists |-> TRUE, readable |-> TRUE, entries |-> <<ChainEntry(1, 2), GoodEntry(2)>>]

Init ==
    \E y \in {EmptyStore.yaml, UserFile} :
        InitStore(initialize([EmptyStore EXCEPT !.yaml = y], 1))

Next ==
    \/ \E id \in JobIds, s \in CreateSchedules, r \in CreateRetries : CreateJob(id, s, r)
    \/ \E id \in JobIds, p \in Patches : PatchJob(id, p)
    \/ \E id \in JobIds : PauseJob(id)
    \/ \E id \in JobIds : ResumeJob(id)
    \/ \E id \in JobIds : DeleteJob(id)
    \/ \E id \in JobIds : RunOnce(id)
    \/ Reload
    \/ Restart
    \/ RestartFreshDb
    \/ Export
    \/ \E id \in JobIds : \E e \in HandEntries(id) : HandAdd(id, e)
    \/ \E i \in 1..NumJobs : HandRemove(i)
    \/ HandBreak
    \/ HandRepair
    \/ Tick
    \/ \E i \in 1..(NumJobs + 1), s \in {"ok", "failed"} : FinishRun(i, s)
    \/ \E before_ms \in PruneTimes : DeleteOldRuns(before_ms)
    \/ Advance

Spec == Init /\ [][Next]_vars

-----------------------------------------------------------------------------
(* Retry scenario: every job is created through Create and every run fails *)

InitRetry ==
    \E s1 \in CreateSchedules, s2 \in CreateSchedules :
    \E r1 \in CreateRetries, r2 \in CreateRetries :
        InitStore(save(save(initialize(EmptyStore, 1), 1, CreatedJob(s1, r1, 1)),
                       2, CreatedJob(s2, r2, 1)))

NextRetry ==
    \/ Tick
    \/ \E i \in 1..NumJobs : FinishRun(i, "failed")
    \/ Advance

SpecRetry == InitRetry /\ [][NextRetry]_vars

-----------------------------------------------------------------------------
(* The schedule calculator on its own: one job, one computation *)

MaxSchedTime == 4
MaxInterval == 3

SchedTimes == 0..MaxSchedTime

AtEveryInputs ==
    [schedule : {AtSchedule(t) : t \in SchedTimes}
                    \cup {EverySchedule(i) : i \in (0 - 1)..MaxInterval},
     now : SchedTimes,
     last : {NULL} \cup SchedTimes]

CronDays == {1, 30, LastDay}
CronHours == {0, 9, 23}
CronMinutes == {0, 29, 30, 58, 59}
CronSteps == {1, 7, 30, 59}

DailyExpression(m, h) == <<FieldNum(m), FieldNum(h), FieldStar, FieldStar, FieldStar>>
StepExpression(n) == <<FieldStep(n), FieldStar, FieldStar, FieldStar, FieldStar>>

CronInputs ==
    [schedule : {CronSchedule(DailyExpression(m, h), "Asia/Shanghai") :
                    m \in {0, 30, 59}, h \in CronHours}
                \cup {CronSchedule(StepExpression(n), "Asia/Shanghai") : n \in CronSteps}
                \cup {CronSchedule(<<FieldNum(0), FieldNum(9), FieldStar, FieldStar>>,
                                    "Asia/Shanghai")},
     now : {Timestamp([day |-> d, hour |-> h, minute |-> m]) :
                d \in CronDays, h \in CronHours, m \in CronMinutes},
     last : {NULL}]

InitSchedule ==
    \E in \in AtEveryInputs \cup CronInputs :
        /\ now = in.now
        /\ jobs = (1 :> [NewJob("n1", "", TRUE, in.schedule, SystemEventPayload("hi"),
                                DefaultMaxRetries, DefaultRetryDelayMs, <<>>, in.now)
                            EXCEPT !.last_run_at_ms = in.last])
        /\ order = <<1>>
        /\ yaml = EmptyStore.yaml
        /\ job_state = <<>>
        /\ job_runs = EmptyStore.job_runs
        /\ inflight = <<>>
        /\ deleted = {}
        /\ ops = 0
        /\ exec = NoCall
        /\ fs = NoFiles

\* compute_next_run_at_ms(job.schedule, now, job.state.last_run_at_ms)
ComputeNextRun ==
    /\ ops = 0
    /\ jobs[1].schedule.kind \in {"at", "every"}
    /\ jobs' = [jobs EXCEPT ![1].next_run_at_ms =
                    compute_next_run_at_ms(jobs[1].schedule, now, jobs[1].last_run_at_ms)]
    /\ ops' = 1
    /\ UNCHANGED <<exec, fs, now, order, yaml, job_state, job_runs, inflight, deleted>>

\* _compute_cron_fallback(job.schedule, now): croniter is not installed.
CronFallback ==
    /\ ops = 0
    /\ jobs[1].schedule.kind = "cron"
    /\ jobs' = [jobs EXCEPT ![1].next_run_at_ms =
                    _compute_cron_fallback(jobs[1].schedule, now)]
    /\ ops' = 1
    /\ UNCHANGED <<exec, fs, now, order, yaml, job_state, job_runs, inflight, deleted>>

NextSchedule == ComputeNextRun \/ CronFallback

SpecSchedule == InitSchedule /\ [][NextSchedule]_vars

-----------------------------------------------------------------------------
(* Timer scenario: jobs of every schedule kind created through Create, under
   the timer alone, runs ending ok or failed *)

TimerSchedules ==
    CreateSchedules \cup {CronSchedule(StepExpression(n), "Asia/Shanghai") : n \in {1, 2}}

InitTimer ==
    \E s1 \in TimerSchedules, s2 \in TimerSchedules :
    \E r1 \in CreateRetries, r2 \in CreateRetries :
        InitStore(save(save(initialize(EmptyStore, 1), 1, CreatedJob(s1, r1, 1)),
                       2, CreatedJob(s2, r2, 1)))

NextTimer ==
    \/ Tick
    \/ \E i \in 1..NumJobs, s \in {"ok", "failed"} : FinishRun(i, s)
    \/ Advance

SpecTimer == InitTimer /\ [][NextTimer]_vars

-----------------------------------------------------------------------------
(* Hour-end scenario: the timer alone in the last minutes of an hour (the
   first of the day and the last), jobs of every schedule kind created at
   minute 55, every run ending ok *)

HourEndMinute == 55
HourEndLast == 58

HourEndStarts ==
    {Timestamp([day |-> 1, hour |-> h, minute |-> HourEndMinute]) : h \in {0, 23}}

HourEndSchedules(t) ==
    {AtSchedule(t + 1), EverySchedule(1), EverySchedule(2),
     CronSchedule(StepExpression(7), "Asia/Shanghai"),
     CronSchedule(StepExpression(1), "Asia/Shanghai")}

InitHourEnd ==
    \E t \in HourEndStarts :
    \E s1 \in HourEndSchedules(t), s2 \in HourEndSchedules(t) :
        LET st == save(save(initialize(EmptyStore, t), 1, CreatedJob(s1, 1, t)),
                       2, CreatedJob(s2, 1, t))
        IN  /\ now = t
            /\ jobs = st.jobs
            /\ order = st.order
            /\ yaml = st.yaml
            /\ job_state = st.job_state
            /\ job_runs = st.job_runs
            /\ inflight = <<>>
            /\ deleted = {}
            /\ ops = 0
            /\ exec = NoCall
            /\ fs = NoFiles

HourEndAdvance ==
    /\ now % 60 < HourEndLast
    /\ now' = now + 1
    /\ UNCHANGED <<exec, fs, jobs, order, yaml, job_state, job_runs, inflight, deleted, ops>>

NextHourEnd ==
    \/ Tick
    \/ \E i \in 1..NumJobs : FinishRun(i, "ok")
    \/ HourEndAdvance

SpecHourEnd == InitHourEnd /\ [][NextHourEnd]_vars

-----------------------------------------------------------------------------
(* executor.py: JobExecutor.execute, one await at a time.                   *)
(* exec holds the call: its arguments (id, job, target), the collaborators *)
(* given to __init__ (cfg), the calls made to them so far, the await the    *)
(* call is suspended at (pc), the event passed to on_system_event, and how  *)
(* the call ended (outcome, result, error).                                 *)

Called(x, callee, what) ==
    [x EXCEPT !.calls = Append(@, [callee |-> callee, what |-> what, ended |-> "pending"])]

\* The call the executor is waiting for has ended: "returned" or "raised".
Ended(x, how) == [x EXCEPT !.calls[Len(x.calls)].ended = how]

\* execute returns result / lets the exception out.
Returned(x, result) == [x EXCEPT !.pc = "done", !.outcome = "returned", !.result = result]
Raised(x) == [x EXCEPT !.pc = "done", !.outcome = "raised"]

IsNotifying(payload) == payload.kind = "agent_turn" /\ payload.notify_chat_id # ""

_send_error_notification(x) ==
    IF ~x.cfg.notification_sender THEN Raised(x)
    ELSE [Called(x, "send", "failure") EXCEPT !.pc = "send_error"]

\* execute without the failure notification.
HandleException_Silent(x, e) == Raised([x EXCEPT !.error = e])

\* The except clause of execute: notify about the failure, then re-raise.
HandleException(x, e) ==
    LET x1 == [x EXCEPT !.error = e] IN
    IF IsNotifying(x.job.payload) THEN _send_error_notification(x1) ELSE Raised(x1)

_send_result_notification(x) ==
    IF ~x.cfg.notification_sender THEN Returned(x, x.result)
    ELSE [Called(x, "send", "success") EXCEPT !.pc = "send_result"]

\* _execute_isolated_mode after report_to_main.
AfterReport(x) ==
    IF IsNotifying(x.job.payload) THEN _send_result_notification(x)
    ELSE Returned(x, x.result)

\* _execute_isolated_mode after the payload handler returned result.
AfterPayload(x, result) ==
    LET x1 == [x EXCEPT !.result = result] IN
    IF x.target.report_to_main /\ x.cfg.report_to_main
    THEN [Called(x1, "report_to_main", result) EXCEPT !.pc = "report_to_main"]
    ELSE AfterReport(x1)

\* _execute_agent_task that goes on without a runner.
_execute_agent_task_Unchecked(x) ==
    [Called(x, "agent_runner.run", x.job.payload.prompt) EXCEPT !.pc = "agent_runner.run"]

_execute_agent_task(x) ==
    IF ~x.cfg.agent_runner THEN HandleException(x, "No agent runner configured")
    ELSE [Called(x, "agent_runner.run", x.job.payload.prompt) EXCEPT !.pc = "agent_runner.run"]

_execute_notification(x) ==
    IF ~x.cfg.notification_sender
    THEN HandleException(x, "No notification sender configured")
    ELSE [Called(x, "send", "payload") EXCEPT !.pc = "send_payload"]

\* payload.method.upper(), on the methods of ExecPayloads.
Upper(method) ==
    IF method = "get" THEN "GET" ELSE IF method = "post" THEN "POST"
    ELSE IF method = "put" THEN "PUT" ELSE IF method = "delete" THEN "DELETE"
    ELSE method

WebhookMethods == {"GET", "POST", "PUT"}

\* "import aiohttp" comes first and raises where the package is absent; a
\* method other than GET, POST and PUT raises before any request is made.
_execute_webhook(x) ==
    IF ~x.aiohttp THEN HandleException(x, "No module named aiohttp")
    ELSE IF x.job.payload.url = "" THEN HandleException(x, "No webhook URL configured")
    ELSE IF Upper(x.job.payload.method) \notin WebhookMethods
         THEN HandleException(x, "Unsupported HTTP method")
    ELSE [Called(x, "webhook", x.job.payload.url) EXCEPT !.pc = "webhook"]

\* The text _execute_webhook returns (the status code is left out).
WebhookResult(method) ==
    IF method = "GET" THEN "Webhook GET"
    ELSE IF method = "PUT" THEN "Webhook PUT"
    ELSE "Webhook POST"

_execute_isolated_mode(x) ==
    LET payload_kind == x.job.payload.kind IN
    IF payload_kind = "agent_turn" THEN _execute_agent_task(x)
    ELSE IF payload_kind = "system_event" THEN _execute_notification(x)
    ELSE IF payload_kind = "webhook" THEN _execute_webhook(x)
    ELSE AfterPayload(x, "Unknown payload type")

\* The system event injected into the main session.
EventData(id, job) ==
    [type |-> "scheduled_task", job_id |-> id, job_name |-> job.name,
     payload |-> PayloadToDict(job.payload)]

\* _execute_main_mode after on_system_event returned.
AfterSystemEvent(x) ==
    IF x.target.trigger_heartbeat /\ x.cfg.run_heartbeat
    THEN [Called(x, "run_heartbeat", x.job.user_id) EXCEPT !.pc = "run_heartbeat"]
    ELSE Returned(x, "Injected to main session")

\* _execute_main_mode that also runs the payload in the isolated way.
_execute_main_mode_AndPayload(x) ==
    IF ~x.cfg.on_system_event
    THEN HandleException(x, "on_system_event callback not configured for main mode")
    ELSE _execute_isolated_mode([Called(x, "on_system_event", x.job.user_id)
                                 EXCEPT !.event = EventData(x.id, x.job)])

_execute_main_mode(x) ==
    IF ~x.cfg.on_system_event
    THEN HandleException(x, "on_system_event callback not configured for main mode")
    ELSE [Called(x, "on_system_event", x.job.user_id)
          EXCEPT !.event = EventData(x.id, x.job), !.pc = "on_system_event"]

execute(x) ==
    IF x.target.kind = "main" THEN _execute_main_mode(x)
    ELSE _execute_isolated_mode(x)

\* The suspended await ends with an exception.
Raises(x, e) == HandleException(Ended(x, "raised"), e)

\* The suspended await ends with a value.
Gives(x) == Ended(x, "returned")

\* _send_error_notification without its try / except.
AfterErrorSend_Unguarded(x, how) ==
    IF how = "raise" THEN Raised([Ended(x, "raised") EXCEPT !.error = "send failed"])
    ELSE Raised(Gives(x))

\* _send_error_notification after send: an exception is logged and dropped.
AfterErrorSend(x, how) ==
    IF how = "raise" THEN Raised(Ended(x, "raised")) ELSE Raised(Gives(x))

\* _send_result_notification after send: an exception is logged and dropped.
AfterResultSend(x, how) ==
    IF how = "raise" THEN Returned(Ended(x, "raised"), x.result)
    ELSE Returned(Gives(x), x.result)

-----------------------------------------------------------------------------
(* Executor scenario: one execute call, with every choice of payload,      *)
(* target and configured collaborators, each await ending as the           *)
(* collaborator decides.                                                    *)

\* One unit of model time, in seconds.
UnitSeconds == 60

ExecPayloads ==
    { [AgentTurnPayload("p") EXCEPT !.timeout_seconds = UnitSeconds],
      [AgentTurnPayload("p") EXCEPT !.notify_chat_id = "42", !.timeout_seconds = UnitSeconds],
      SystemEventPayload("hi"), WebhookPayload("u"), WebhookPayload(""),
      [WebhookPayload("u") EXCEPT !.method = "get"],
      [WebhookPayload("u") EXCEPT !.method = "PUT"],
      [WebhookPayload("u") EXCEPT !.method = "DELETE"],
      TaskChainPayload(2, {"ok"}) }

ExecTargets ==
    {SessionTarget(k, h, r) : k \in {"main", "isolated"}, h \in BOOLEAN, r \in BOOLEAN}

\* JobExecutor.__init__: every collaborator is optional.
ExecConfigs ==
    [agent_runner : BOOLEAN, notification_sender : BOOLEAN, on_system_event : BOOLEAN,
     run_heartbeat : BOOLEAN, report_to_main : BOOLEAN]

InitExecutor ==
    \E payload \in ExecPayloads, target \in ExecTargets, cfg \in ExecConfigs :
    \E hang \in BOOLEAN, aiohttp \in BOOLEAN :
        /\ now = 1
        /\ jobs = <<>>
        /\ order = <<>>
        /\ yaml = EmptyStore.yaml
        /\ job_state = <<>>
        /\ job_runs = EmptyStore.job_runs
        /\ inflight = <<>>
        /\ deleted = {}
        /\ ops = 0
        /\ fs = NoFiles
        /\ exec = [pc |-> "idle", id |-> 1,
                   job |-> [CreatedJob(EverySchedule(1), 1, 1) EXCEPT !.payload = payload,
                                                                    !.user_id = "u1"],
                   target |-> target, cfg |-> cfg, hang |-> hang, aiohttp |-> aiohttp,
                   calls |-> <<>>, event |-> NoObj, result |-> NoStatus, error |-> NoStatus,
                   outcome |-> "none", started_at_ms |-> NULL]

ExecFrame == UNCHANGED <<now, jobs, order, yaml, job_state, job_runs, inflight, deleted, ops, fs>>

\* await executor.execute(job, target), up to its first await.
Execute ==
    /\ exec.pc = "idle"
    /\ exec' = execute([exec EXCEPT !.started_at_ms = now])
    /\ ExecFrame

OnSystemEventDone(ok) ==
    /\ exec.pc = "on_system_event"
    /\ exec' = IF ok THEN AfterSystemEvent(Gives(exec)) ELSE Raises(exec, "on_system_event failed")
    /\ ExecFrame

RunHeartbeatDone(ok) ==
    /\ exec.pc = "run_heartbeat"
    /\ exec' = IF ok THEN Returned(Gives(exec), "Injected to main session")
               ELSE Raises(exec, "run_heartbeat failed")
    /\ ExecFrame

\* agent_runner.run returns or raises; a runner that hangs does neither.
AgentRunDone(ok) ==
    /\ exec.pc = "agent_runner.run"
    /\ ~exec.hang
    /\ exec' = IF ok THEN AfterPayload(Gives(exec), "answer") ELSE Raises(exec, "agent failed")
    /\ ExecFrame

\* notification_sender.send returns True, returns False or raises.
SendDone(how) ==
    /\ exec.pc \in {"send_payload", "send_result", "send_error"}
    /\ exec' = IF exec.pc = "send_payload"
               THEN IF how = "true" THEN AfterPayload(Gives(exec), "Notification sent")
                    ELSE IF how = "false" THEN AfterPayload(Gives(exec), "Notification failed")
                    ELSE Raises(exec, "send failed")
               ELSE IF exec.pc = "send_result" THEN AfterResultSend(exec, how)
               ELSE AfterErrorSend(exec, how)
    /\ ExecFrame

\* The HTTP request ends with a response.
WebhookDone(status) ==
    /\ exec.pc = "webhook"
    /\ exec' = IF status >= 400 THEN HandleException(Gives(exec), "Webhook failed with status")
               ELSE AfterPayload(Gives(exec), WebhookResult(Upper(exec.job.payload.method)))
    /\ ExecFrame

\* The HTTP request ends without a response: aiohttp raises (ClientTimeout).
WebhookTimeout ==
    /\ exec.pc = "webhook"
    /\ exec' = Raises(exec, "timeout")
    /\ ExecFrame

ReportToMainDone(ok) ==
    /\ exec.pc = "report_to_main"
    /\ exec' = IF ok THEN AfterReport(Gives(exec)) ELSE Raises(exec, "report_to_main failed")
    /\ ExecFrame

\* Time passes while the call is under way.
ExecAdvance ==
    /\ exec.pc # "none"
    /\ Advance

NextExecutor ==
    \/ Execute
    \/ \E ok \in BOOLEAN : OnSystemEventDone(ok)
    \/ \E ok \in BOOLEAN : RunHeartbeatDone(ok)
    \/ \E ok \in BOOLEAN : AgentRunDone(ok)
    \/ \E how \in {"true", "false", "raise"} : SendDone(how)
    \/ \E status \in {200, 500} : WebhookDone(status)
    \/ WebhookTimeout
    \/ \E ok \in BOOLEAN : ReportToMainDone(ok)
    \/ ExecAdvance

SpecExecutor == InitExecutor /\ [][NextExecutor]_vars

\* The same, where a step that can be taken is taken in the end.
SpecExecutorLive == SpecExecutor /\ WF_vars(NextExecutor)

-----------------------------------------------------------------------------
(* C2 *)

RecordCount(id) ==
    RunCounts(job_runs)[id]["ok"] + RunCounts(job_runs)[id]["failed"] + RunCounts(job_runs)[id]["skipped"]
        + RunCounts(job_runs)[id]["timeout"]

\* C2: a job with max_retries = N whose payload fails on every run produces
\* exactly N+1 run records, all of them failed, and then has status failed
\* with consecutive_failures = N+1; after that the timer never runs it.
C2_ExactlyNPlusOneRecords ==
    \A id \in DOMAIN jobs :
        /\ RecordCount(id) = RunCounts(job_runs)[id]["failed"]
        /\ RecordCount(id) <= jobs[id].max_retries + 1
        /\ jobs[id].status = "failed" =>
              /\ RecordCount(id) = jobs[id].max_retries + 1
              /\ jobs[id].consecutive_failures = jobs[id].max_retries + 1
              /\ RunsInFlight(inflight, id) = 0

\* What holds of C2: the records with status failed are exactly N+1 once
\* the job is failed, consecutive_failures counts them, no record is ok or
\* timeout, and a failed job has no run in flight.
C2_RetryExhaustion ==
    \A id \in DOMAIN jobs :
        /\ RunCounts(job_runs)[id]["ok"] = 0 /\ RunCounts(job_runs)[id]["timeout"] = 0
        /\ RunCounts(job_runs)[id]["failed"] <= jobs[id].max_retries + 1
        /\ jobs[id].consecutive_failures = RunCounts(job_runs)[id]["failed"]
        /\ jobs[id].status = "failed" <=>
              RunCounts(job_runs)[id]["failed"] = jobs[id].max_retries + 1
        /\ jobs[id].status = "failed" => RunsInFlight(inflight, id) = 0

C2_Witness ==
    \E id \in DOMAIN jobs :
        /\ jobs[id].max_retries = 1
        /\ jobs[id].status = "failed"
        /\ jobs[id].consecutive_failures = 2
        /\ RunCounts(job_runs)[id]["failed"] = 2
        /\ RunCounts(job_runs)[id]["skipped"] >= 1
        /\ get_due_jobs(St, now) = <<>>
        /\ RunBudgetLeft

-----------------------------------------------------------------------------
(* C3 *)

\* C3: a run that finishes ok sets the job's consecutive_failures to 0; a
\* failed run adds one to it; the job's status becomes failed exactly when a
\* failed run raises consecutive_failures above max_retries, and while
\* consecutive_failures <= max_retries the job keeps its status (an active
\* job stays active). No other step makes a job failed.
C3_FailureCounting ==
    [][/\ \A i \in 1..Len(inflight) : \A s \in {"ok", "failed"} :
            FinishRun(i, s) =>
               LET id == inflight[i].id
                   old == TaskJob(inflight[i], jobs)
                   new == jobs'[id]
               IN  /\ s = "ok" => new.consecutive_failures = 0
                   /\ s = "failed" =>
                         new.consecutive_failures = old.consecutive_failures + 1
                   /\ (old.status # "failed" /\ new.status = "failed") <=>
                         (/\ old.status # "failed"
                          /\ s = "failed"
                          /\ new.consecutive_failures > new.max_retries)
                   /\ (s = "failed" /\ new.consecutive_failures <= new.max_retries)
                         => new.status = old.status
       /\ \A id \in DOMAIN jobs \cap DOMAIN jobs' :
            (jobs[id].status # "failed" /\ jobs'[id].status = "failed") =>
               \E i \in 1..Len(inflight) : inflight[i].id = id /\ FinishRun(i, "failed")
      ]_vars

C3_Witness ==
    \E a \in DOMAIN jobs, b \in DOMAIN jobs :
        /\ jobs[a].last_status = "ok"
        /\ jobs[a].failure_count >= 1
        /\ jobs[a].consecutive_failures = 0
        /\ jobs[a].status = "active"
        /\ jobs[b].status = "failed"
        /\ jobs[b].consecutive_failures = jobs[b].max_retries + 1

-----------------------------------------------------------------------------
(* C1 *)

\* C1: for every job, in every reachable state, at most one run of that job
\* is in flight, whatever the interleaving of timer ticks, RunOnce calls,
\* retries and task-chain triggers.
C1_NoOverlap == \A id \in JobIds : RunsInFlight(inflight, id) <= 1

\* A job is running and the timer has dropped a selection of it meanwhile.
C1_Witness ==
    \E id \in JobIds : RunsInFlight(inflight, id) = 1 /\ RunCounts(job_runs)[id]["skipped"] >= 1

-----------------------------------------------------------------------------
(* C5 *)

DueSet(before_ms) ==
    {id \in DOMAIN jobs :
        /\ jobs[id].enabled
        /\ jobs[id].status = "active"
        /\ jobs[id].next_run_at_ms # NULL
        /\ jobs[id].next_run_at_ms <= before_ms}

\* C5: get_due_jobs(before_ms) returns exactly the enabled, active jobs with
\* next_run_at_ms <= before_ms, each once, in non-decreasing order of
\* next_run_at_ms; a disabled, pending, paused, completed or failed job is
\* never returned.
C5_DueJobsExact ==
    \A before_ms \in 0..(MaxTime + 2) :
        LET due == get_due_jobs(St, before_ms) IN
        /\ Range(due) = DueSet(before_ms)
        /\ Len(due) = Cardinality(DueSet(before_ms))
        /\ \A i \in 1..(Len(due) - 1) :
              jobs[due[i]].next_run_at_ms <= jobs[due[i + 1]].next_run_at_ms

\* Two jobs are due, the sort has reordered them, or a due-looking job is
\* held back by its status.
C5_Witness ==
    /\ Len(get_due_jobs(St, now)) = 2
    /\ get_due_jobs(St, now) # order
    /\ jobs[order[1]].next_run_at_ms > jobs[order[2]].next_run_at_ms

-----------------------------------------------------------------------------
(* C4 *)

\* C4: after Delete(id), until a job with that id is created again, no row of
\* job_state or job_runs references id and the config file does not list id,
\* also when a run of the job was in flight at the Delete and finishes later.
C4_CascadeDelete ==
    \A id \in deleted :
        /\ id \notin DOMAIN job_state
        /\ RunCounts(job_runs)[id] = NoRuns
        /\ id \notin FileIds(yaml)

-----------------------------------------------------------------------------
(* C6 *)

ConfigOf(job) ==
    [name |-> job.name, description |-> job.description, schedule |-> job.schedule,
     payload |-> job.payload, enabled |-> job.enabled, max_retries |-> job.max_retries]

StNext == [jobs |-> jobs', order |-> order', yaml |-> yaml',
           job_state |-> job_state', job_runs |-> job_runs']

\* C6: after Patch(id, patch) succeeds the config file holds the patched
\* definition: a Reload right after the Patch yields the job with the patched
\* name, description, schedule, payload, enabled and max_retries.
C6_PatchReachesConfig ==
    [][\A id \in JobIds : \A p \in Patches :
          PatchJob(id, p) =>
             LET re == reload_yaml(StNext, now') IN
             /\ id \in DOMAIN re.jobs
             /\ ConfigOf(re.jobs[id]) = ConfigOf(PatchedJob(jobs[id], p, now))]_vars

-----------------------------------------------------------------------------
(* C7 *)

\* C7: a per-run state change (the finalization of a run, the timer's pass)
\* leaves the config file unchanged.
C7_RunsLeaveConfig ==
    [][(Tick \/ \E i \in 1..(NumJobs + 1) : \E s \in {"ok", "failed"} : FinishRun(i, s))
          => yaml' = yaml]_vars

-----------------------------------------------------------------------------
(* C8, C9, C10 *)

\* The load of the file raises: the file does not parse, or one entry does not.
LoadFails(y) ==
    /\ y.exists
    /\ \/ ~y.readable
       \/ \E i \in 1..Len(y.entries) : _yaml_dict_to_job(y.entries[i], 0) = ERR

\* C8: after startup reconciliation and after every Reload, the job ids that
\* have a job_state row are the job ids of the config file.
C8_RowsMatchFile ==
    [][(Reload \/ Restart) => DOMAIN job_state' = FileIds(yaml')]_vars

\* C9: when the config file is unreadable or fails to parse at startup or
\* Reload, the store continues with an empty job set, leaves the file as it
\* is, and removes no job_state row of a job the file lists.
C9_FailedLoadKeepsData ==
    [][((Reload \/ Restart) /\ LoadFails(yaml)) =>
          /\ DOMAIN jobs' = {}
          /\ yaml' = yaml
          /\ \A id \in FileIds(yaml) \cap DOMAIN job_state : id \in DOMAIN job_state']_vars

\* C10: no store operation overwrites a config file that holds job
\* definitions with an empty job list (deleting the only listed job aside).
C10_NoEmptyOverwrite ==
    [][(yaml.entries # <<>> /\ yaml'.entries = <<>>) =>
          \/ \E id \in JobIds : DeleteJob(id) /\ FileIds(yaml) = {id}
          \/ \E i \in 1..NumJobs : HandRemove(i)]_vars

-----------------------------------------------------------------------------
(* C11 *)

\* C11: after Reload, a job that appears in the config file for the first
\* time is armed: its status is active and its next_run_at_ms is set.
C11_ReloadArmsNewJob ==
    [][Reload =>
          \A id \in DOMAIN jobs' \ (DOMAIN jobs \cup DOMAIN job_state) :
              /\ jobs'[id].status = "active"
              /\ jobs'[id].next_run_at_ms # NULL]_vars

-----------------------------------------------------------------------------
(* C12 *)

\* C12: Reload returns the number of jobs of the re-read config file, and
\* every job present both before and after the Reload keeps its run_count
\* and the rest of its persisted runtime state.
C12_ReloadKeepsState ==
    [][Reload =>
          /\ ~LoadFails(yaml) => reload_yaml_count(St, now) = Len(yaml.entries)
          /\ reload_yaml_count(St, now) = Cardinality(DOMAIN jobs')
          /\ \A id \in DOMAIN jobs \cap DOMAIN jobs' :
                /\ RowOf(jobs'[id]) = RowOf(jobs[id])
                /\ job_state'[id] = job_state[id]
          /\ job_runs' = job_runs]_vars

\* A Reload has replaced the object of a job with a run in flight and a
\* run_count of 1 or more, and has loaded a hand-added job.
C12_Witness ==
    /\ \E i \in 1..Len(inflight) :
          /\ inflight[i].detached
          /\ inflight[i].id \in DOMAIN jobs
          /\ jobs[inflight[i].id].run_count >= 1
          /\ jobs[inflight[i].id].status = "active"
    /\ \E z \in DOMAIN jobs : jobs[z].status = "pending" /\ jobs[z].created_at_ms = now
    /\ Cardinality(DOMAIN jobs) = 2
    /\ Len(yaml.entries) = 2

-----------------------------------------------------------------------------
(* C13 *)

\* C13: a start with a config file that lists jobs and with the state
\* database deleted yields the job set of the file, each job with
\* run_count = 0 and a newly created state row; the file is left as it is.
C13_FreshDbKeepsDefinitions ==
    [][(RestartFreshDb /\ ~LoadFails(yaml)) =>
          /\ DOMAIN jobs' = FileIds(yaml)
          /\ DOMAIN job_state' = FileIds(yaml)
          /\ \A i \in 1..Len(yaml.entries) :
                LET e == yaml.entries[i]
                    job == jobs'[e.id]
                IN  /\ job.name = e.name
                    /\ job.enabled = e.enabled
                    /\ ScheduleToDict(job.schedule) = e.schedule
                    /\ job.payload.kind = e.payload.kind
                    /\ job.max_retries = DictGet(e, "max_retries", DefaultMaxRetries)
                    /\ Len(job.on_complete) = Len(DictGet(e, "on_complete", <<>>))
                    /\ job.run_count = 0
                    /\ job.last_run_at_ms = NULL
                    /\ job_state'[e.id] = RowOf(job)
                    /\ job.created_at_ms = now
          /\ yaml' = yaml]_vars

\* A job made by Create (its entry carries max_retries) is pending, with a
\* state row created after time 1, no run counted and no run record.
C13_Witness ==
    \E id \in DOMAIN jobs :
        /\ \E i \in 1..Len(yaml.entries) :
              yaml.entries[i].id = id /\ "max_retries" \in DOMAIN yaml.entries[i]
        /\ jobs[id].status = "pending"
        /\ jobs[id].run_count = 0
        /\ jobs[id].created_at_ms > 1
        /\ job_state[id].created_at_ms = jobs[id].created_at_ms
        /\ RunCounts(job_runs)[id] = NoRuns

-----------------------------------------------------------------------------
(* C14 *)

\* C14: compute_next_run_at_ms returns, for At, at_ms if at_ms > now and null
\* otherwise; for Every, null if interval_ms <= 0, now + interval_ms if
\* last_run is null, and otherwise the smallest last_run + k * interval_ms
\* with k >= 1 that is strictly greater than now; every non-null result is
\* >= now + 1.
C14_NextRunContract ==
    (ops = 1 /\ jobs[1].schedule.kind \in {"at", "every"}) =>
        LET schedule == jobs[1].schedule
            last == jobs[1].last_run_at_ms
            next == jobs[1].next_run_at_ms
        IN  /\ schedule.kind = "at" =>
                  next = IF schedule.at_ms > now THEN schedule.at_ms ELSE NULL
            /\ (schedule.kind = "every" /\ schedule.interval_ms <= 0) => next = NULL
            /\ (schedule.kind = "every" /\ schedule.interval_ms > 0 /\ last = NULL) =>
                  next = now + schedule.interval_ms
            /\ (schedule.kind = "every" /\ schedule.interval_ms > 0 /\ last # NULL) =>
                  \E k \in 1..(MaxSchedTime + 2) :
                      /\ next = last + k * schedule.interval_ms
                      /\ next > now
                      /\ \A k2 \in 1..(k - 1) : last + k2 * schedule.interval_ms <= now
            /\ next # NULL => next >= now + 1

\* An Every schedule whose last run lies two or more intervals back.
C14_Witness ==
    /\ ops = 1
    /\ jobs[1].schedule.kind = "every"
    /\ jobs[1].schedule.interval_ms = 2
    /\ jobs[1].last_run_at_ms = 0
    /\ now = 4
    /\ jobs[1].next_run_at_ms = 6

-----------------------------------------------------------------------------
(* C15 *)

IsDaily(expression) ==
    /\ Len(expression) = 5
    /\ expression[1].form = "num" /\ expression[1].n \in 0..59
    /\ expression[2].form = "num" /\ expression[2].n \in 0..23
    /\ expression[3] = FieldStar /\ expression[4] = FieldStar /\ expression[5] = FieldStar

\* The earliest instant strictly after t whose time of day is h:m.
NextDaily(t, h, m) ==
    LET today == (t \div 1440) * 1440 + h * 60 + m
    IN  IF today > t THEN today ELSE today + 1440

\* C15: for a daily expression 'm h * * *' the fallback cron calculator
\* returns, for every now, the earliest instant strictly after now whose
\* local time is h:m:00; it never returns null.
C15_DailyFallback ==
    (ops = 1 /\ jobs[1].schedule.kind = "cron" /\ IsDaily(jobs[1].schedule.expression)) =>
        jobs[1].next_run_at_ms =
            NextDaily(now, jobs[1].schedule.expression[2].n, jobs[1].schedule.expression[1].n)

-----------------------------------------------------------------------------
(* C16 *)

IsStep(expression) ==
    /\ Len(expression) = 5
    /\ expression[1].form = "step" /\ expression[1].n \in 1..59
    /\ \A i \in 2..5 : expression[i] = FieldStar

\* The earliest instant strictly after t whose minute is a multiple of n.
NextStep(t, n) ==
    CHOOSE u \in (t + 1)..(t + 60) :
        /\ (u % 60) % n = 0
        /\ \A v \in (t + 1)..(u - 1) : (v % 60) % n # 0

\* C16: for a minute-step expression '*/n * * * *' the fallback cron
\* calculator returns, for every now, the earliest instant strictly after
\* now whose minute is a multiple of n; it never returns null.
C16_StepFallback ==
    (ops = 1 /\ jobs[1].schedule.kind = "cron" /\ IsStep(jobs[1].schedule.expression)) =>
        jobs[1].next_run_at_ms = NextStep(now, jobs[1].schedule.expression[1].n)

-----------------------------------------------------------------------------
(* C17 *)

\* C17: Create of a job whose at_ms is not after the creation time yields
\* status completed and next_run_at_ms = null at once; the job is never
\* armed, never selected by the timer, and has zero run records.
C17_AtInPastCompleted ==
    \A id \in DOMAIN jobs :
        (jobs[id].schedule.kind = "at" /\ jobs[id].schedule.at_ms <= jobs[id].created_at_ms) =>
            /\ jobs[id].status = "completed"
            /\ jobs[id].next_run_at_ms = NULL
            /\ id \notin Range(get_due_jobs(St, now))
            /\ id \notin InFlightIds(inflight)
            /\ RecordCount(id) = 0
            /\ jobs[id].run_count = 0

\* An at-in-past job at the end of time, next to a job the timer has run.
C17_Witness ==
    /\ now = MaxTime
    /\ \E id \in DOMAIN jobs, other \in DOMAIN jobs :
          /\ jobs[id].schedule = AtSchedule(1)
          /\ jobs[id].created_at_ms = 1
          /\ jobs[id].status = "completed"
          /\ RecordCount(id) = 0
          /\ RunCounts(job_runs)[other]["ok"] >= 1

-----------------------------------------------------------------------------
(* C18 *)

\* An Every job that is due with k >= 2 of its windows gone by.
MissedWindows(id) ==
    /\ id \in Range(get_due_jobs(St, now))
    /\ jobs[id].schedule.kind = "every"
    /\ jobs[id].next_run_at_ms + jobs[id].schedule.interval_ms <= now

\* C18: for an Every job whose scheduler was stopped across k >= 2 interval
\* windows, the timer starts exactly one run for the missed windows, and
\* when that run ends the job's next_run_at_ms is strictly in the future:
\* the job is not due again at that instant.
C18_NoBackfill ==
    [][/\ Tick =>
            \A id \in DOMAIN jobs :
                (MissedWindows(id) /\ CanStart(inflight, id)) =>
                    RunsInFlight(inflight', id) = 1
       /\ \A i \in 1..Len(inflight), s \in {"ok", "failed"} :
            (/\ FinishRun(i, s)
             /\ inflight[i].kind = "timer"
             /\ ~inflight[i].detached
             /\ jobs[inflight[i].id].schedule.kind = "every") =>
                LET id == inflight[i].id IN
                /\ id \notin Range(get_due_jobs(St', now))
                /\ jobs'[id].status = "active" => jobs'[id].next_run_at_ms > now
      ]_vars

\* An Every job of interval 1 created at 1 and left alone until 3: the
\* windows at 2 and 3 went by, one run started at 3, and its end set the
\* next run to 4.
C18_Witness ==
    /\ now = 3
    /\ \E id \in DOMAIN jobs :
          /\ jobs[id].schedule = EverySchedule(1)
          /\ jobs[id].created_at_ms = 1
          /\ jobs[id].run_count = 1
          /\ jobs[id].last_run_at_ms = 3
          /\ jobs[id].next_run_at_ms = 4
          /\ RecordCount(id) = 1
          /\ id \notin InFlightIds(inflight)

-----------------------------------------------------------------------------
(* C19 *)

\* An active At job that never ran and whose at_ms has passed.
MissedAtJob(id) ==
    /\ jobs[id].status = "active"
    /\ jobs[id].schedule.kind = "at"
    /\ jobs[id].last_run_at_ms = NULL
    /\ jobs[id].schedule.at_ms < now

\* C19: an active At job whose at_ms passed while the scheduler was down is,
\* after the restart, completed with one run record of status skipped, and
\* its payload is not executed.
C19_MissedAtSkipped ==
    [][Restart =>
        \A id \in DOMAIN jobs :
            (MissedAtJob(id) /\ id \in DOMAIN jobs') =>
                /\ jobs'[id].status = "completed"
                /\ jobs'[id].next_run_at_ms = NULL
                /\ RunCounts(job_runs')[id]["skipped"] = RunCounts(job_runs)[id]["skipped"] + 1
                /\ \A r \in {"ok", "failed", "timeout"} : RunCounts(job_runs')[id][r] = RunCounts(job_runs)[id][r]
                /\ jobs'[id].run_count = jobs[id].run_count
                /\ id \notin InFlightIds(inflight')
                /\ id \notin Range(get_due_jobs(St', now))
      ]_vars

\* An At job for time 2, created at 1, found at 3 by a restart: completed,
\* with one skipped record and no run.
C19_Witness ==
    /\ now = 3
    /\ ops >= 1
    /\ \E id \in DOMAIN jobs :
          /\ jobs[id].schedule = AtSchedule(2)
          /\ jobs[id].created_at_ms = 1
          /\ jobs[id].status = "completed"
          /\ jobs[id].run_count = 0
          /\ RunCounts(job_runs)[id]["skipped"] = 1
          /\ RecordCount(id) = 1

-----------------------------------------------------------------------------
(* C20 *)

\* The end of the timer-started run i, with status s, of job id, which was
\* active and is still the job the run was started for.
TimerRunEnds(i, s, id) ==
    /\ FinishRun(i, s)
    /\ inflight[i].id = id
    /\ inflight[i].kind = "timer"
    /\ ~inflight[i].detached
    /\ jobs[id].status = "active"

\* A field of a cron expression admits the value v.
CronFieldMatches(field, v) ==
    \/ field.form = "star"
    \/ field.form = "num" /\ v = field.n
    \/ field.form = "step" /\ field.n > 0 /\ v % field.n = 0

\* Minute t is a slot of the cron schedule (day, month and weekday fields
\* are stars in every schedule of the scenarios).
CronMatches(schedule, t) ==
    /\ CronFieldMatches(schedule.expression[1], FromTimestamp(t).minute)
    /\ CronFieldMatches(schedule.expression[2], FromTimestamp(t).hour)

\* next is the first slot of the schedule after now_ms: for Every the first
\* last + k * interval after now, for Cron the first minute after now that
\* the expression admits, in whatever hour or day it falls.
IsNextSlot(schedule, next, last, now_ms) ==
    IF schedule.kind = "every"
    THEN /\ next > now_ms
         /\ next - schedule.interval_ms <= now_ms
         /\ next > last
         /\ (next - last) % schedule.interval_ms = 0
    ELSE /\ next # NULL
         /\ next > now_ms
         /\ CronMatches(schedule, next)
         /\ \A t \in (now_ms + 1)..(next - 1) : ~CronMatches(schedule, t)

\* C20: when a run ends, an At job becomes completed with next_run_at_ms =
\* null, and an Every or Cron job remains active with next_run_at_ms
\* recomputed from the new last_run_at_ms: the first slot of its schedule
\* after the current time.
C20_RescheduleAnyStatus ==
    [][\A i \in 1..Len(inflight), s \in {"ok", "failed"}, id \in DOMAIN jobs :
        TimerRunEnds(i, s, id) =>
            IF jobs[id].schedule.kind = "at"
            THEN jobs'[id].status = "completed" /\ jobs'[id].next_run_at_ms = NULL
            ELSE /\ jobs'[id].status = "active"
                 /\ IsNextSlot(jobs[id].schedule, jobs'[id].next_run_at_ms,
                               jobs'[id].last_run_at_ms, now)
      ]_vars

-----------------------------------------------------------------------------
(* C21 *)

\* The jobs that the on_complete list of a job names for a run status.
ChainTargets(job, run_status) ==
    {job.on_complete[k].next_job_id :
        k \in {x \in 1..Len(job.on_complete) : run_status \in job.on_complete[x].on_status}}

\* C21: when a run of job A ends with status s, a run of B starts at that
\* moment exactly when an on_complete entry of A names B and lists s in its
\* on_status (and B exists, is not running, and the run budget is not used
\* up): with on_status = [ok], B runs after an ok run of A and not after a
\* failed one.
C21_ChainOnListedStatus ==
    [][\A i \in 1..Len(inflight), s \in {"ok", "failed"} :
        FinishRun(i, s) =>
            LET A == TaskJob(inflight[i], jobs)
                rest == RemoveAt(inflight, i)
            IN  \A B \in JobIds :
                    (RunsInFlight(inflight', B) > RunsInFlight(rest, B))
                    <=> /\ B \in ChainTargets(A, s)
                        /\ B \in DOMAIN jobs'
                        /\ B \notin InFlightIds(rest)
                        /\ ExecutedRuns(job_runs') + Len(rest) < MaxRuns
      ]_vars

\* Job 1, whose on_complete names job 2 for ok, has had an ok run, and a
\* run of job 2 started by the chain is in flight.
C21_Witness ==
    /\ 1 \in DOMAIN jobs /\ 2 \in DOMAIN jobs
    /\ jobs[1].on_complete = <<TaskChainPayload(2, {"ok"})>>
    /\ jobs[1].last_status = "ok"
    /\ \E i \in 1..Len(inflight) : inflight[i].id = 2 /\ inflight[i].kind = "chain"

-----------------------------------------------------------------------------
(* C22 *)

\* C22: triggering job B through A's task chain starts a run of B at once
\* and leaves B as it is; the end of that run adds one run record of B and
\* leaves B's schedule and next_run_at_ms unchanged.
C22_ChainLeavesNextRun ==
    [][\A i \in 1..Len(inflight), s \in {"ok", "failed"} :
        FinishRun(i, s) =>
            /\ \A B \in DOMAIN jobs \ {inflight[i].id} :
                  B \notin InFlightIds(inflight) /\ B \in InFlightIds(inflight') =>
                      /\ \E k \in 1..Len(inflight') :
                            inflight'[k] = Task(B, "chain", now)
                      /\ jobs'[B] = jobs[B]
                      /\ RunCounts(job_runs')[B] = RunCounts(job_runs)[B]
            /\ (inflight[i].kind = "chain" /\ ~inflight[i].detached) =>
                  LET B == inflight[i].id IN
                  /\ RunCounts(job_runs')[B] = [RunCounts(job_runs)[B] EXCEPT ![s] = @ + 1]
                  /\ jobs'[B].run_count = jobs[B].run_count + 1
                  /\ jobs'[B].schedule = jobs[B].schedule
                  /\ jobs'[B].next_run_at_ms = jobs[B].next_run_at_ms
      ]_vars

\* Job 2 was given a next run by a Patch of its schedule, job 1 was run by
\* RunOnce and ended ok, and the chained run of job 2 has ended: job 2 has
\* one run record and still its next run.
C22_Witness ==
    /\ ops = 2
    /\ 1 \in DOMAIN jobs /\ 2 \in DOMAIN jobs
    /\ jobs[1].on_complete = <<TaskChainPayload(2, {"ok"})>>
    /\ jobs[1].status = "pending" /\ jobs[1].run_count = 1 /\ jobs[1].last_status = "ok"
    /\ jobs[2].status = "pending" /\ jobs[2].run_count = 1
    /\ RecordCount(2) = 1
    /\ jobs[2].next_run_at_ms # NULL

-----------------------------------------------------------------------------
(* C23 *)

\* The only run of job id in flight is one started by RunOnce.
ManualRunInFlight(id) ==
    /\ RunsInFlight(inflight, id) = 1
    /\ \E k \in 1..Len(inflight) :
          inflight[k].id = id /\ inflight[k].kind = "manual" /\ ~inflight[k].detached

\* C23: RunOnce(id) starts a run of the job at once and leaves its
\* next_run_at_ms (and the rest of the job) as it was before the call, and
\* so does the end of that run; and the scheduled fire still happens: a
\* timer pass that finds the job due while the run of RunOnce is in flight
\* starts the scheduled run at that instant.
C23_RunOnceKeepsSchedule ==
    [][/\ \A id \in JobIds :
            RunOnce(id) =>
                /\ \E k \in 1..Len(inflight') : inflight'[k].id = id /\ inflight'[k].started_at_ms = now
                /\ jobs' = jobs
                /\ job_state' = job_state
       /\ \A i \in 1..Len(inflight), s \in {"ok", "failed"} :
            (FinishRun(i, s) /\ inflight[i].kind = "manual" /\ ~inflight[i].detached) =>
                LET id == inflight[i].id IN
                /\ jobs'[id].next_run_at_ms = jobs[id].next_run_at_ms
                /\ job_state'[id].next_run_at_ms = jobs[id].next_run_at_ms
       /\ \A id \in DOMAIN jobs :
            (Tick /\ IsDue(jobs[id], now) /\ ManualRunInFlight(id)) =>
                \E k \in 1..Len(inflight') :
                    /\ inflight'[k].id = id
                    /\ inflight'[k].kind = "timer"
                    /\ inflight'[k].started_at_ms = now
      ]_vars

\* What holds of C23: the RunOnce step and the end of its run leave the
\* job's next_run_at_ms and schedule as they were.
C23_RunOnceLeavesNextRun ==
    [][/\ \A id \in JobIds :
            RunOnce(id) =>
                /\ \E k \in 1..Len(inflight') : inflight'[k].id = id /\ inflight'[k].started_at_ms = now
                /\ jobs' = jobs
                /\ job_state' = job_state
       /\ \A i \in 1..Len(inflight), s \in {"ok", "failed"} :
            (FinishRun(i, s) /\ inflight[i].kind = "manual" /\ ~inflight[i].detached) =>
                LET id == inflight[i].id IN
                /\ jobs'[id].next_run_at_ms = jobs[id].next_run_at_ms
                /\ job_state'[id].next_run_at_ms = jobs[id].next_run_at_ms
                /\ jobs'[id].schedule = jobs[id].schedule
                /\ jobs'[id].run_count = jobs[id].run_count + 1
      ]_vars

\* An active Every job created at 1 for time 2 was run by RunOnce at 1, the
\* run has ended, and next_run_at_ms is still 2.
C23_Witness ==
    /\ now = 1
    /\ ops = 2
    /\ inflight = <<>>
    /\ \E id \in DOMAIN jobs :
          /\ jobs[id].schedule = EverySchedule(1)
          /\ jobs[id].status = "active"
          /\ jobs[id].created_at_ms = 1
          /\ jobs[id].run_count = 1
          /\ jobs[id].last_run_at_ms = 1
          /\ jobs[id].next_run_at_ms = 2

-----------------------------------------------------------------------------
(* C24 *)

\* The run status the timer records for an execute call: failed when the
\* call raised.
RunStatusOf(outcome) == IF outcome = "raised" THEN "failed" ELSE "ok"

\* The collaborator the job needs and the executor was not given, as the
\* error the run is to carry; NoStatus when none is missing.
MissingCollaborator(x) ==
    IF x.target.kind = "main"
    THEN IF x.cfg.on_system_event THEN NoStatus
         ELSE "on_system_event callback not configured for main mode"
    ELSE IF x.job.payload.kind = "agent_turn" /\ ~x.cfg.agent_runner
         THEN "No agent runner configured"
    ELSE IF x.job.payload.kind = "system_event" /\ ~x.cfg.notification_sender
         THEN "No notification sender configured"
    ELSE NoStatus

CallsTo(x, callee) == {k \in 1..Len(x.calls) : x.calls[k].callee = callee}
Sends(x, what) == {k \in CallsTo(x, "send") : x.calls[k].what = what}

\* C24: a run whose job needs a collaborator that was not configured ends
\* as a failed run that carries an error naming the collaborator and is
\* counted against retries; the missing collaborator is never called, and
\* an executor can be built without any collaborator.
C24_MissingCollaboratorFails ==
    (exec.pc \notin {"none", "idle"} /\ MissingCollaborator(exec) # NoStatus) =>
        /\ exec.pc \in {"send_error", "done"}
        /\ exec.error = MissingCollaborator(exec)
        /\ \A k \in 1..Len(exec.calls) : exec.calls[k] \in
              {[callee |-> "send", what |-> "failure", ended |-> e] :
                  e \in {"pending", "returned", "raised"}}
        /\ exec.pc = "done" =>
              /\ exec.outcome = "raised"
              /\ RunStatusOf(exec.outcome) = "failed"
              /\ LET j == Finalized(exec.job, "timer", RunStatusOf(exec.outcome),
                                    exec.started_at_ms, now)
                 IN  /\ j.consecutive_failures = exec.job.consecutive_failures + 1
                     /\ j.failure_count = exec.job.failure_count + 1
                     /\ j.last_error # NoStatus

\* An isolated system_event job run by an executor built without any
\* collaborator: the call raised, naming the notification sender.
C24_Witness ==
    /\ exec.pc = "done"
    /\ exec.cfg = [agent_runner |-> FALSE, notification_sender |-> FALSE,
                   on_system_event |-> FALSE, run_heartbeat |-> FALSE,
                   report_to_main |-> FALSE]
    /\ exec.target.kind = "isolated"
    /\ exec.job.payload.kind = "system_event"
    /\ exec.outcome = "raised"
    /\ exec.error = "No notification sender configured"

-----------------------------------------------------------------------------
(* C25 *)

\* C25: executing a job with target kind main (on_system_event configured)
\* calls on_system_event exactly once, with a scheduled_task event of the
\* job, then run_heartbeat if and only if target.trigger_heartbeat is true
\* and run_heartbeat is configured, never calls the agent runner, the
\* webhook or the notification sender for the payload, and returns
\* "Injected to main session".
C25_MainModeInjects ==
    (exec.pc \notin {"none", "idle"} /\ exec.target.kind = "main" /\ exec.cfg.on_system_event) =>
        /\ CallsTo(exec, "on_system_event") = {1}
        /\ exec.calls[1].what = exec.job.user_id
        /\ exec.event = [type |-> "scheduled_task", job_id |-> exec.id,
                         job_name |-> exec.job.name, payload |-> exec.job.payload]
        /\ CallsTo(exec, "agent_runner.run") = {}
        /\ CallsTo(exec, "webhook") = {}
        /\ CallsTo(exec, "report_to_main") = {}
        /\ Sends(exec, "payload") = {} /\ Sends(exec, "success") = {}
        /\ CallsTo(exec, "run_heartbeat") \subseteq {2}
        /\ exec.calls[1].ended = "returned" =>
              (CallsTo(exec, "run_heartbeat") = {2}
                  <=> (exec.target.trigger_heartbeat /\ exec.cfg.run_heartbeat))
        /\ exec.calls[1].ended # "returned" => CallsTo(exec, "run_heartbeat") = {}
        /\ (exec.pc = "done" /\ exec.outcome = "returned") =>
              exec.result = "Injected to main session"
        /\ (exec.pc = "done" /\ \A k \in 1..Len(exec.calls) : exec.calls[k].ended = "returned") =>
              exec.outcome = "returned"

\* A main-target agent_turn job with the heartbeat asked for and every
\* collaborator configured: the event was injected, the heartbeat run, and
\* the call returned.
C25_Witness ==
    /\ exec.pc = "done"
    /\ exec.target = SessionTarget("main", TRUE, TRUE)
    /\ exec.job.payload.kind = "agent_turn"
    /\ exec.cfg.agent_runner /\ exec.cfg.notification_sender /\ exec.cfg.report_to_main
    /\ Len(exec.calls) = 2
    /\ exec.calls[1].callee = "on_system_event"
    /\ exec.calls[2].callee = "run_heartbeat"
    /\ exec.outcome = "returned"

-----------------------------------------------------------------------------
(* C26 *)

\* The payload's timeout_seconds have elapsed since the execute call began.
TimeoutElapsed(x) ==
    /\ x.started_at_ms # NULL
    /\ (now - x.started_at_ms) * UnitSeconds >= x.job.payload.timeout_seconds

\* C26: an isolated agent_turn run whose runner never returns is ended once
\* the payload's timeout_seconds have elapsed: the execute call eventually
\* finishes, as a failure.
C26_HungRunnerEnds ==
    (exec.pc = "agent_runner.run" /\ exec.hang /\ TimeoutElapsed(exec))
        ~> (exec.pc = "done" /\ exec.outcome = "raised")

-----------------------------------------------------------------------------
(* C27 *)

\* C27: however the send of the failure notification ends (True, False or
\* an exception), the execute call ends raising the payload's original
\* error, the failure message was sent once, and the run counts as exactly
\* one failure.
C27_NotifyFailureKeepsError ==
    [][(exec.pc = "send_error" /\ exec' # exec) =>
          /\ exec.error # NoStatus
          /\ exec'.pc = "done"
          /\ exec'.outcome = "raised"
          /\ exec'.error = exec.error
          /\ Cardinality(Sends(exec', "failure")) = 1
          /\ Len(exec'.calls) = Len(exec.calls)
          /\ LET j == Finalized(exec.job, "timer", RunStatusOf(exec'.outcome),
                                exec.started_at_ms, now)
             IN  /\ j.failure_count = exec.job.failure_count + 1
                 /\ j.consecutive_failures = exec.job.consecutive_failures + 1]_vars

\* The agent runner raised, the send of the failure notification raised
\* too, and the call ended with the runner's error.
C27_Witness ==
    /\ exec.pc = "done"
    /\ exec.outcome = "raised"
    /\ exec.error = "agent failed"
    /\ Len(exec.calls) >= 2
    /\ exec.calls[Len(exec.calls)] =
          [callee |-> "send", what |-> "failure", ended |-> "raised"]

-----------------------------------------------------------------------------
(* C28 *)

\* C28: for an isolated agent_turn job with a non-empty notify_chat_id and
\* a notification sender configured, a finished execute call has made
\* exactly one result notification send: the success message if and only
\* if it returns, the failure message if and only if it raises.
C28_OneResultNotification ==
    (/\ exec.pc # "none"
     /\ exec.target.kind = "isolated"
     /\ exec.job.payload.kind = "agent_turn"
     /\ exec.job.payload.notify_chat_id # ""
     /\ exec.cfg.notification_sender) =>
        /\ Cardinality(Sends(exec, "success")) + Cardinality(Sends(exec, "failure")) <= 1
        /\ exec.pc = "done" =>
              /\ Cardinality(Sends(exec, "success")) + Cardinality(Sends(exec, "failure")) = 1
              /\ Sends(exec, "payload") = {}
              /\ Sends(exec, "success") # {} <=> exec.outcome = "returned"
              /\ Sends(exec, "failure") # {} <=> exec.outcome = "raised"

\* A notifying job whose runner answered and whose report to the main
\* session then raised: the one notification sent is the failure message.
C28_Witness ==
    /\ exec.pc = "done"
    /\ exec.target.kind = "isolated"
    /\ exec.job.payload.kind = "agent_turn"
    /\ exec.job.payload.notify_chat_id # ""
    /\ exec.cfg.notification_sender
    /\ exec.result = "answer"
    /\ exec.outcome = "raised"
    /\ Cardinality(Sends(exec, "failure")) = 1

-----------------------------------------------------------------------------
(* Config scenario: one job definition, held in memory or written by hand   *)
(* into scheduler.yaml, and the two conversions between memory and file.    *)

ConfigJobs ==
    { [NewJob("n1", description, enabled, schedule, payload, max_retries,
              retry_delay_ms, on_complete, 1)
       EXCEPT !.user_id = user_id, !.agent_id = agent_id, !.target = target] :
        description \in {"", "d"}, enabled \in BOOLEAN,
        schedule \in {EverySchedule(1)},
        payload \in {SystemEventPayload("hi"), AgentTurnPayload("p")},
        max_retries \in {1, DefaultMaxRetries},
        retry_delay_ms \in {DefaultRetryDelayMs, 2},
        on_complete \in {<<>>, <<TaskChainPayload(2, {"ok"})>>},
        user_id \in {"", "u1"}, agent_id \in {"", "main", "a1"},
        target \in ExecTargets }

\* A definition written by hand with every key spelled out.
FullEntry(id, job) ==
    [id |-> id, name |-> job.name, description |-> job.description,
     enabled |-> job.enabled, user_id |-> job.user_id, agent_id |-> job.agent_id,
     schedule |-> ScheduleToDict(job.schedule), payload |-> PayloadToDict(job.payload),
     target |-> SessionTargetToDict(job.target), max_retries |-> job.max_retries,
     retry_delay_ms |-> job.retry_delay_ms, on_complete |-> job.on_complete]

InitConfig ==
    \E job \in ConfigJobs :
        \/ InitStore([EmptyStore EXCEPT !.jobs = 1 :> job, !.order = <<1>>])
        \/ InitStore([EmptyStore EXCEPT !.yaml =
              [exists |-> TRUE, readable |-> TRUE, entries |-> <<FullEntry(1, job)>>]])

ConfigFrame == UNCHANGED <<now, inflight, deleted, ops, exec, fs>>

\* self._write_yaml(): the file is rewritten from self._jobs.
WriteConfig ==
    /\ SetStore(_write_yaml(St))
    /\ ConfigFrame

\* self._load_yaml(): self._jobs is rebuilt from the file.
ReadConfig ==
    /\ SetStore(_load_yaml(St, now))
    /\ ConfigFrame

NextConfig == WriteConfig \/ ReadConfig

SpecConfig == InitConfig /\ [][NextConfig]_vars

-----------------------------------------------------------------------------
(* C29 *)

ConfigFields ==
    {"name", "description", "enabled", "user_id", "agent_id", "schedule", "payload",
     "target", "max_retries", "retry_delay_ms", "on_complete"}

FileConfigOf(job) == [f \in ConfigFields |-> job[f]]

\* C29: reading back a file that was written from the jobs in memory gives
\* jobs with the same id, name, description, enabled, user_id, agent_id,
\* schedule, payload, target, max_retries, retry_delay_ms and on_complete;
\* and writing the jobs that were read from a file gives that file again.
C29_ConfigRoundTrip ==
    [][/\ (ReadConfig /\ yaml = _write_yaml(St).yaml) =>
            /\ DOMAIN jobs' = DOMAIN jobs
            /\ \A id \in DOMAIN jobs : FileConfigOf(jobs'[id]) = FileConfigOf(jobs[id])
       /\ (WriteConfig /\ yaml.exists /\ jobs = _load_yaml(St, now).jobs) =>
            yaml' = yaml]_vars

-----------------------------------------------------------------------------
(* Files scenario: _write_yaml as the steps the file system sees, next to   *)
(* a reader of the config path.  A directory maps a name to an inode (0     *)
(* when the name does not exist); an inode holds the chunks written to it.  *)
(* The content of the file is abstracted to the number of the rewrite that  *)
(* produced it.                                                             *)

MaxVersions == 4
MaxReads == 2
\* The comment header and the yaml.dump output.
NumChunks == 2

yaml_path == "scheduler.yaml"

\* _write_yaml that opens the config path itself for writing.
temp_path_InPlace == yaml_path

\* self.yaml_path.with_suffix(".tmp")
temp_path == "scheduler.tmp"

Complete(v) == [k \in 1..NumChunks |-> [version |-> v, part |-> k]]

IdleReader ==
    [pc |-> "idle", inode |-> 0, version |-> 0, during |-> "none", seen |-> <<>>, reads |-> 0]

\* initialize() has written the file once.
InitFiles ==
    /\ now = 1
    /\ jobs = <<>>
    /\ order = <<>>
    /\ yaml = EmptyFile
    /\ job_state = <<>>
    /\ job_runs = {}
    /\ inflight = <<>>
    /\ deleted = {}
    /\ ops = 0
    /\ exec = NoCall
    /\ fs = [pc |-> "idle", dir |-> (yaml_path :> 1) @@ (temp_path :> 0),
             inodes |-> <<Complete(1)>>, version |-> 1, committed |-> 1,
             reader |-> IdleReader]

FilesFrame == UNCHANGED <<now, jobs, order, yaml, job_state, job_runs, inflight, deleted, ops, exec>>

\* open(temp_path, "w"): an existing file is truncated, otherwise a new one
\* is created.
WriteOpen ==
    /\ fs.pc = "idle"
    /\ fs.version < MaxVersions
    /\ fs' = IF fs.dir[temp_path] # 0
             THEN [fs EXCEPT !.pc = "writing", !.version = @ + 1,
                             !.inodes[fs.dir[temp_path]] = <<>>]
             ELSE [fs EXCEPT !.pc = "writing", !.version = @ + 1,
                             !.inodes = Append(@, <<>>),
                             !.dir[temp_path] = Len(fs.inodes) + 1]
    /\ FilesFrame

\* f.write / yaml.dump: the next part of the text reaches the file.
WriteChunk ==
    /\ fs.pc = "writing"
    /\ Len(fs.inodes[fs.dir[temp_path]]) < NumChunks
    /\ fs' = [fs EXCEPT !.inodes[fs.dir[temp_path]] =
                 Append(@, [version |-> fs.version, part |-> Len(@) + 1])]
    /\ FilesFrame

\* temp_path.rename(self.yaml_path), after the with block has closed the
\* file: the config path names the inode just written, the temp name is gone.
WriteRename ==
    /\ fs.pc = "writing"
    /\ Len(fs.inodes[fs.dir[temp_path]]) = NumChunks
    /\ fs' = [fs EXCEPT !.pc = "idle", !.committed = fs.version,
                        !.dir = IF temp_path = yaml_path THEN @
                                ELSE [@ EXCEPT ![yaml_path] = fs.dir[temp_path],
                                               ![temp_path] = 0]]
    /\ FilesFrame

\* The process is killed inside _write_yaml; what it wrote stays on disk.
WriteCrash ==
    /\ fs.pc = "writing"
    /\ fs' = [fs EXCEPT !.pc = "idle"]
    /\ FilesFrame

\* A reader opens the config path.
ReaderOpen ==
    /\ fs.pc # "none"
    /\ fs.reader.pc = "idle"
    /\ fs.reader.reads < MaxReads
    /\ fs.dir[yaml_path] # 0
    /\ fs' = [fs EXCEPT !.reader = [IdleReader EXCEPT !.pc = "open",
                                       !.inode = fs.dir[yaml_path],
                                       !.version = fs.committed,
                                       !.reads = fs.reader.reads]]
    /\ FilesFrame

\* The reader reads the file it has open, to its end.
ReaderRead ==
    /\ fs.pc # "none"
    /\ fs.reader.pc = "open"
    /\ fs' = [fs EXCEPT !.reader.pc = "done", !.reader.during = fs.pc,
                        !.reader.seen = fs.inodes[fs.reader.inode]]
    /\ FilesFrame

\* The reader closes the file; it may read again.
ReaderClose ==
    /\ fs.pc # "none"
    /\ fs.reader.pc = "done"
    /\ fs' = [fs EXCEPT !.reader = [IdleReader EXCEPT !.reads = fs.reader.reads + 1]]
    /\ FilesFrame

NextFiles ==
    \/ WriteOpen \/ WriteChunk \/ WriteRename \/ WriteCrash
    \/ ReaderOpen \/ ReaderRead \/ ReaderClose

SpecFiles == InitFiles /\ [][NextFiles]_vars

-----------------------------------------------------------------------------
(* C30 *)

\* C30: the config path always names a complete file, and a reader of the
\* config path that runs next to a rewrite sees the complete text of the
\* file that was in place when it opened the path (the previous one, or the
\* new one once the rename is done), never a partial or empty file.
C30_ReaderSeesCompleteFile ==
    fs.pc # "none" =>
        /\ fs.dir[yaml_path] # 0
        /\ fs.inodes[fs.dir[yaml_path]] = Complete(fs.committed)
        /\ fs.reader.pc = "done" =>
              /\ fs.reader.seen = Complete(fs.reader.version)
              /\ fs.reader.version \in 1..fs.committed

\* A reader that read while the rewrite was half written, and got the
\* previous file; the rewrite has since been renamed into place.
C30_Witness ==
    /\ fs.pc # "none"
    /\ fs.reader.pc = "done"
    /\ fs.reader.during = "writing"
    /\ fs.reader.seen = Complete(1)
    /\ fs.committed = 2

-----------------------------------------------------------------------------
(* C31 *)

\* The clock readings at which the second call may come.
LaterTimes == now..MaxTime

\* C31: applying Create, Patch, Pause, Resume or Delete once more with the
\* same inputs, to the state the first application left, at the same or
\* any later clock reading, changes neither the job set, nor the config
\* file, nor job_state, nor job_runs (the creation time of the job, like
\* updated_at_ms, set aside).  The second Create and Patch write
\* through JobStore.save what they compute at the later reading; the
\* second Pause finds the job paused and the second Resume finds it active,
\* so neither has anything to flip; the second Delete finds no job.
C31_IdempotentAtAnyTime ==
    [][\A later \in LaterTimes :
       /\ \A id \in JobIds, s \in CreateSchedules, r \in CreateRetries :
            CreateJob(id, s, r) =>
                /\ id \in DOMAIN jobs'
                /\ save(StNext, id, [CreatedJob(s, r, later) EXCEPT
                                        !.created_at_ms = jobs'[id].created_at_ms]) = StNext
       /\ \A id \in JobIds, p \in Patches :
            PatchJob(id, p) =>
                /\ id \in DOMAIN jobs'
                /\ save(StNext, id, PatchedJob(jobs'[id], p, later)) = StNext
       /\ \A id \in JobIds :
            PauseJob(id) =>
                /\ id \in DOMAIN jobs'
                /\ jobs'[id].status = "paused"
       /\ \A id \in JobIds :
            ResumeJob(id) =>
                /\ id \in DOMAIN jobs'
                /\ jobs'[id].status = "active"
       /\ \A id \in JobIds : DeleteJob(id) => delete(StNext, id) = StNext]_vars

\* What holds of C31: the second call made at the clock reading of the
\* first, its writes applied whatever the job's status, leaves the job
\* set, the config file, job_state and job_runs as the first left them.
C31_Idempotent ==
    [][/\ \A id \in JobIds, s \in CreateSchedules, r \in CreateRetries :
            CreateJob(id, s, r) => save(StNext, id, CreatedJob(s, r, now)) = StNext
       /\ \A id \in JobIds, p \in Patches :
            PatchJob(id, p) =>
                /\ id \in DOMAIN jobs'
                /\ save(StNext, id, PatchedJob(jobs'[id], p, now)) = StNext
       /\ \A id \in JobIds :
            PauseJob(id) =>
                /\ id \in DOMAIN jobs'
                /\ save(StNext, id, [jobs'[id] EXCEPT !.status = "paused"]) = StNext
       /\ \A id \in JobIds :
            ResumeJob(id) =>
                /\ id \in DOMAIN jobs'
                /\ save(StNext, id,
                        [jobs'[id] EXCEPT !.status = "active",
                                          !.next_run_at_ms =
                                             compute_next_run_at_ms(jobs'[id].schedule, now,
                                                                    jobs'[id].last_run_at_ms)])
                      = StNext
       /\ \A id \in JobIds : DeleteJob(id) => delete(StNext, id) = StNext]_vars

\* A job that was created, patched and paused.
C31_Witness ==
    \E id \in DOMAIN jobs :
        /\ jobs[id].status = "paused"
        /\ jobs[id].name = "n2"
        /\ ops = 3

-----------------------------------------------------------------------------
(* C32 *)

PatchableFields == {"name", "description", "schedule", "payload", "enabled", "max_retries"}

\* C32: Patch(id, patch) gives the fields present in the patch their new
\* values, sets next_run_at_ms to the first fire of the new schedule
\* computed with last_run_at_ms = null when the schedule is changed, and
\* leaves every other field of the job, its job_state row apart from
\* next_run_at_ms, every other job, the config file and job_runs as they
\* were.
C32_PatchFrame ==
    [][\A id \in JobIds, p \in Patches :
          PatchJob(id, p) =>
              /\ DOMAIN jobs' = DOMAIN jobs
              /\ \A f \in DOMAIN p : jobs'[id][f] = p[f]
              /\ \A f \in DOMAIN jobs[id] \ (DOMAIN p \cup {"next_run_at_ms"}) :
                    jobs'[id][f] = jobs[id][f]
              /\ "schedule" \notin DOMAIN p =>
                    jobs'[id].next_run_at_ms = jobs[id].next_run_at_ms
              /\ ("schedule" \in DOMAIN p /\ p.schedule # jobs[id].schedule) =>
                    jobs'[id].next_run_at_ms = compute_next_run_at_ms(p.schedule, now, NULL)
              /\ \A other \in DOMAIN jobs \ {id} : jobs'[other] = jobs[other]
              /\ DOMAIN job_state' = DOMAIN job_state \cup {id}
              /\ job_state'[id] = [RowOf(jobs'[id]) EXCEPT !.created_at_ms =
                                      IF id \in DOMAIN job_state
                                      THEN job_state[id].created_at_ms ELSE @]
              /\ \A other \in DOMAIN job_state \ {id} : job_state'[other] = job_state[other]
              /\ job_runs' = job_runs
              /\ order' = order]_vars

\* A job that has run and failed once, then was given a new description and
\* payload.
C32_Witness ==
    \E id \in DOMAIN jobs :
        /\ jobs[id].description = "d"
        /\ jobs[id].payload.kind = "agent_turn"
        /\ jobs[id].run_count = 1
        /\ jobs[id].failure_count = 1
        /\ jobs[id].last_run_at_ms # NULL

-----------------------------------------------------------------------------
(* C33 *)

\* C33: Pause(id) sets the job's status to paused, Resume(id) sets it to
\* active with next_run_at_ms recomputed, the timer starts runs of active
\* jobs only, and nothing but Resume makes a paused job active: between a
\* Pause and the following Resume the timer starts no run of the job.
C33_PausedUntilResume ==
    [][\A id \in JobIds :
          /\ PauseJob(id) =>
                (jobs'[id].status = "paused" /\ job_state'[id].status = "paused")
          /\ ResumeJob(id) =>
                /\ jobs'[id].status = "active"
                /\ jobs'[id].next_run_at_ms =
                      compute_next_run_at_ms(jobs[id].schedule, now, jobs[id].last_run_at_ms)
          /\ Tick => \A i \in (Len(inflight) + 1)..Len(inflight') :
                        jobs[inflight'[i].id].status = "active"
          /\ (/\ id \in DOMAIN jobs /\ jobs[id].status = "paused"
              /\ id \in DOMAIN jobs' /\ jobs'[id].status = "active") => ResumeJob(id)]_vars

-----------------------------------------------------------------------------
(* schedule.py: validate_cron_expression, where croniter cannot be          *)
(* imported.  A field of an expression is its text, kept as the class of    *)
(* texts the string tests of the code tell apart:                           *)
(*   star "*", num "5", step "*/5", badstep "*/x", range "1-5",             *)
(*   list "1,2", badrange "x-y", badlist "a,b", word "abc".                 *)

FieldBadStep == [form |-> "badstep", n |-> 0]
FieldRange == [form |-> "range", n |-> 0]
FieldList == [form |-> "list", n |-> 0]
FieldBadRange == [form |-> "badrange", n |-> 0]
FieldBadList == [form |-> "badlist", n |-> 0]
FieldWord == [form |-> "word", n |-> 0]

\* part.startswith("*/")
StartsWithStep(part) == part.form \in {"step", "badstep"}

\* "-" in part or "," in part
HasDashOrComma(part) == part.form \in {"range", "list", "badrange", "badlist"}

\* int(text) returns a number rather than raising ValueError.
IntParses(part) == part.form \in {"num", "step"}

\* The loop body of validate_cron_expression for one field.
ValidPart(part) ==
    IF part = FieldStar THEN TRUE
    ELSE IF StartsWithStep(part) THEN IntParses(part)
    ELSE IF HasDashOrComma(part) THEN TRUE
    ELSE IntParses(part)

validate_cron_expression(expression) ==
    IF Len(expression) # 5 THEN FALSE
    ELSE \A k \in 1..5 : ValidPart(expression[k])

LeadFields ==
    {FieldStar, FieldNum(0), FieldNum(9), FieldStep(30), FieldStep(0), FieldBadStep,
     FieldRange, FieldList, FieldBadRange, FieldBadList, FieldWord}
RestFields == {FieldStar, FieldNum(1), FieldRange, FieldBadList}

ValidateExpressions ==
    {<<a, b, c, d, e>> : a \in LeadFields, b \in LeadFields, c \in RestFields,
                         d \in {FieldStar, FieldWord}, e \in {FieldStar, FieldList, FieldBadRange}}
    \cup {<<FieldNum(0), FieldNum(9), FieldStar, FieldStar>>,
          <<FieldNum(0), FieldNum(9), FieldStar, FieldStar, FieldStar, FieldStar>>,
          <<>>}

InitValidate ==
    \E e \in ValidateExpressions, t \in {0, Timestamp([day |-> 1, hour |-> 9, minute |-> 30])} :
        /\ now = t
        /\ jobs = (1 :> NewJob("n1", "", TRUE, CronSchedule(e, "Asia/Shanghai"),
                               SystemEventPayload("hi"), DefaultMaxRetries,
                               DefaultRetryDelayMs, <<>>, t))
        /\ order = <<1>>
        /\ yaml = EmptyStore.yaml
        /\ job_state = <<>>
        /\ job_runs = EmptyStore.job_runs
        /\ inflight = <<>>
        /\ deleted = {}
        /\ ops = 0
        /\ exec = NoCall
        /\ fs = NoFiles

\* validate_cron_expression(job.schedule.expression); exec holds the result.
ValidateCron ==
    /\ exec = NoCall
    /\ exec' = [pc |-> "validated",
                result |-> validate_cron_expression(jobs[1].schedule.expression)]
    /\ UNCHANGED <<fs, now, jobs, order, yaml, job_state, job_runs, inflight, deleted, ops>>

NextValidate == ValidateCron \/ CronFallback

SpecValidate == InitValidate /\ [][NextValidate]_vars

-----------------------------------------------------------------------------
(* C37 *)

\* A field that is not a number, "*", a step, a range or a list of numbers.
Malformed(part) == part.form \in {"badstep", "badrange", "badlist", "word"}

\* C37: validate_cron_expression returns true for every expression for
\* which the cron calculator returns a next-fire time, and false for every
\* expression that does not have exactly 5 fields or has a malformed field.
C37_ValidateMatchesCalculator ==
    exec.pc = "validated" =>
        LET e == jobs[1].schedule.expression IN
        /\ _compute_cron_next(jobs[1].schedule, now) # NULL => exec.result
        /\ (Len(e) # 5 \/ \E k \in 1..Len(e) : Malformed(e[k])) => ~exec.result

-----------------------------------------------------------------------------
(* Requests scenario: Create and Patch called with unvalidated input, as    *)
(* dicts.  The request is parsed and validated before anything is written.  *)

\* The validation error of a schedule and payload given as dicts, NoStatus
\* when there is none.
ValidationError(data) ==
    LET hasSched == "schedule" \in DOMAIN data
        hasPayl  == "payload" \in DOMAIN data
        sched == IF hasSched THEN schedule_from_dict(data.schedule) ELSE ERR
        payl  == IF hasPayl THEN payload_from_dict(data.payload) ELSE ERR
    IN  IF hasSched /\ sched = ERR THEN "Unknown schedule kind"
        ELSE IF hasPayl /\ payl = ERR THEN "Unknown payload kind"
        ELSE IF hasSched /\ sched.kind = "every" /\ sched.interval_ms <= 0
             THEN "interval_ms must be positive"
        ELSE IF hasSched /\ sched.kind = "cron"
                /\ ~validate_cron_expression(sched.expression)
             THEN "Invalid cron expression"
        ELSE NoStatus

\* Create(spec) on unvalidated input: the new store and the error returned.
CreateOutcome(st, id, data, now_ms) ==
    IF ValidationError(data) # NoStatus
    THEN [st |-> st, error |-> ValidationError(data)]
    ELSE [st |-> save(st, id,
                      [CreatedJob(schedule_from_dict(data.schedule), DefaultMaxRetries, now_ms)
                          EXCEPT !.payload = payload_from_dict(data.payload)]),
          error |-> NoStatus]

\* Patch(id, patch) on unvalidated input.
PatchOutcome(st, id, data, now_ms) ==
    IF id \notin DOMAIN st.jobs THEN [st |-> st, error |-> "Job not found"]
    ELSE IF ValidationError(data) # NoStatus
    THEN [st |-> st, error |-> ValidationError(data)]
    ELSE LET patch == [f \in DOMAIN data |->
                         IF f = "schedule" THEN schedule_from_dict(data.schedule)
                         ELSE IF f = "payload" THEN payload_from_dict(data.payload)
                         ELSE data[f]]
         IN  [st |-> save(st, id, PatchedJob(st.jobs[id], patch, now_ms)),
              error |-> NoStatus]

RequestSchedules ==
    { [kind |-> "at", at_ms |-> 2], [kind |-> "every", interval_ms |-> 1],
      [kind |-> "every", interval_ms |-> 0], [kind |-> "every", interval_ms |-> 0 - 1],
      [kind |-> "bogus"],
      [kind |-> "cron", expression |-> DailyExpression(0, 9), timezone |-> "Asia/Shanghai"],
      [kind |-> "cron", expression |-> <<FieldNum(0), FieldNum(9), FieldStar, FieldStar>>,
       timezone |-> "Asia/Shanghai"],
      [kind |-> "cron", expression |-> <<FieldWord, FieldNum(9), FieldStar, FieldStar, FieldStar>>,
       timezone |-> "Asia/Shanghai"],
      [kind |-> "cron",
       expression |-> <<FieldNum(0), FieldNum(9), FieldStar, FieldStar, FieldBadRange>>,
       timezone |-> "Asia/Shanghai"] }

RequestPayloads == { [kind |-> "system_event", message |-> "hi"], [kind |-> "bogus"] }

CreateRequests == [schedule : RequestSchedules, payload : RequestPayloads]

PatchRequests ==
    [schedule : RequestSchedules] \cup [payload : RequestPayloads] \cup {[name |-> "n2"]}

CreateRequest(id, data) ==
    /\ Op
    /\ FreshId(id)
    /\ SetStore(CreateOutcome(St, id, data, now).st)
    /\ deleted' = deleted \ {id}
    /\ UNCHANGED <<exec, fs, now, inflight>>

PatchRequest(id, data) ==
    /\ Op
    /\ SetStore(PatchOutcome(St, id, data, now).st)
    /\ UNCHANGED <<exec, fs, now, inflight, deleted>>

NextRequest ==
    \/ \E id \in JobIds, data \in CreateRequests : CreateRequest(id, data)
    \/ \E id \in JobIds, data \in PatchRequests : PatchRequest(id, data)
    \/ Advance

SpecRequest == Init /\ [][NextRequest]_vars

-----------------------------------------------------------------------------
(* C34 *)

KnownScheduleKinds == {"at", "every", "cron"}
KnownPayloadKinds == {"system_event", "agent_turn", "webhook", "task_chain"}

\* A request the claim calls invalid: unknown schedule or payload kind,
\* interval_ms <= 0, or a cron expression without exactly 5 well-formed
\* fields.
InvalidRequest(data) ==
    \/ /\ "payload" \in DOMAIN data
       /\ data.payload.kind \notin KnownPayloadKinds
    \/ /\ "schedule" \in DOMAIN data
       /\ \/ data.schedule.kind \notin KnownScheduleKinds
          \/ data.schedule.kind = "every" /\ data.schedule.interval_ms <= 0
          \/ /\ data.schedule.kind = "cron"
             /\ \/ Len(data.schedule.expression) # 5
                \/ \E k \in 1..Len(data.schedule.expression) :
                      Malformed(data.schedule.expression[k])

\* C34: a Create or Patch with an invalid request, or a Patch of an unknown
\* job id, returns an error and leaves the job set, the config file,
\* job_state and job_runs unchanged.
C34_RejectedLeavesNoTrace ==
    [][/\ \A id \in JobIds, data \in CreateRequests :
            (CreateRequest(id, data) /\ InvalidRequest(data)) =>
                /\ CreateOutcome(St, id, data, now).error # NoStatus
                /\ StNext = St
       /\ \A id \in JobIds, data \in PatchRequests :
            (PatchRequest(id, data) /\ (InvalidRequest(data) \/ id \notin DOMAIN jobs)) =>
                /\ PatchOutcome(St, id, data, now).error # NoStatus
                /\ StNext = St]_vars

-----------------------------------------------------------------------------
(* State-database failure scenario: the database can stop accepting writes  *)
(* and recover.  fs holds the database's condition and what the scheduler   *)
(* keeps in memory about it: the runs not yet written, the count of         *)
(* consecutive failed writes, the degraded flag.                            *)

\* Consecutive failed writes after which the scheduler is degraded.
DegradedAfter == 2
MaxFlushes == 2

NoPending == {}

DbHealthy ==
    [pc |-> "db", writable |-> TRUE, pending |-> NoPending, failures |-> 0,
     degraded |-> FALSE, flushed |-> 0]

\* The count of consecutive failed writes after one more, counted up to
\* DegradedAfter.
FailedWrites(f) == IF f.failures < DegradedAfter THEN f.failures + 1 ELSE f.failures

HasPending(f) == f.pending # {}

\* The store as the scheduler knows it: the table with the runs kept in
\* memory.
Known(st, f) == [st EXCEPT !.job_runs = st.job_runs \cup f.pending]

\* A write of the timer or of a finalization that takes the store from
\* before, as the scheduler knows it, to after.  When the database
\* refuses it (JobStore.save_run and _upsert_state raise) the memory keeps
\* the change, the tables keep their rows, and the run records are kept in
\* memory.
Retained(before, after, f) ==
    LET new == after.job_runs \ (before.job_runs \cup f.pending) IN
    IF new = {} /\ after.job_state = before.job_state
    THEN [st |-> [after EXCEPT !.job_runs = before.job_runs], f |-> f]
    ELSE IF f.writable
    THEN [st |-> [after EXCEPT !.job_runs = before.job_runs \cup new], f |-> f]
    ELSE [st |-> [after EXCEPT !.job_state = before.job_state,
                               !.job_runs = before.job_runs],
          f  |-> [f EXCEPT !.pending = f.pending \cup new,
                           !.failures = FailedWrites(f),
                           !.degraded = f.degraded \/ FailedWrites(f) >= DegradedAfter]]

\* The start of a tick: the runs kept in memory are written again, with the
\* state rows of the jobs in memory.
RECURSIVE UpsertAll(_, _, _)
UpsertAll(ids, js, rows) ==
    IF ids = <<>> THEN rows
    ELSE UpsertAll(Tail(ids), js, _upsert_state(rows, Head(ids), js[Head(ids)]))

FlushPending(st, f, leave) ==
    IF ~HasPending(f) THEN [st |-> st, f |-> f]
    ELSE IF f.writable
    THEN [st |-> [st EXCEPT !.job_runs = st.job_runs \cup f.pending,
                            !.job_state = UpsertAll(st.order, st.jobs, st.job_state)],
          f  |-> [f EXCEPT !.pending = NoPending, !.failures = 0,
                           !.degraded = f.degraded /\ ~leave,
                           !.flushed = f.flushed + 1]]
    ELSE [st |-> st,
          f  |-> [f EXCEPT !.failures = FailedWrites(f),
                           !.degraded = f.degraded \/ FailedWrites(f) >= DegradedAfter]]

InitDb ==
    /\ now = 1 /\ inflight = <<>> /\ deleted = {} /\ ops = 0 /\ exec = NoCall
    /\ fs = DbHealthy
    /\ \E s1 \in {EverySchedule(1), EverySchedule(2)} :
         LET st == save(initialize(EmptyStore, 1), 1, CreatedJob(s1, 0, 1)) IN
           /\ jobs = st.jobs /\ order = st.order /\ yaml = st.yaml
           /\ job_state = st.job_state /\ job_runs = st.job_runs

DbFails ==
    /\ fs.writable
    /\ fs' = [fs EXCEPT !.writable = FALSE]
    /\ UNCHANGED <<exec, now, jobs, order, yaml, job_state, job_runs, inflight, deleted, ops>>

DbRecovers ==
    /\ ~fs.writable
    /\ fs' = [fs EXCEPT !.writable = TRUE]
    /\ UNCHANGED <<exec, now, jobs, order, yaml, job_state, job_runs, inflight, deleted, ops>>

\* A pending run in memory counts against the budget of runs.
DbRunBudgetLeft ==
    ExecutedRuns(job_runs \cup fs.pending) + Len(inflight) < MaxRuns

DbTick ==
    /\ \/ HasPending(fs) /\ fs.flushed < MaxFlushes
       \/ DbRunBudgetLeft /\ get_due_jobs(St, now) # <<>>
    /\ \E leave \in BOOLEAN :
         LET fl == FlushPending(St, fs, leave)
             r  == IF DbRunBudgetLeft
                   THEN TickLoop(get_due_jobs(fl.st, now), Known(fl.st, fl.f), inflight, now)
                   ELSE [st |-> Known(fl.st, fl.f), infl |-> inflight]
             w  == Retained(fl.st, r.st, fl.f)
         IN  /\ SetStore(w.st)
             /\ fs' = w.f
             /\ inflight' = r.infl
    /\ UNCHANGED <<exec, now, deleted, ops>>

DbFinishRun(i, run_status) ==
    /\ i \in 1..Len(inflight)
    /\ LET t == inflight[i]
           job2 == Finalized(TaskJob(t, jobs), t.kind, run_status, t.started_at_ms, now)
           w == Retained(St, save(save_run(Known(St, fs),
                                            JobRun(t.id, run_status, t.started_at_ms)),
                                   t.id, job2), fs)
       IN  /\ SetStore(w.st)
           /\ fs' = w.f
           /\ inflight' = ChainLoop(job2.on_complete, run_status, w.st,
                                    RemoveAt(inflight, i), now)
    /\ UNCHANGED <<exec, now, deleted, ops>>

\* Create(spec): refused in degraded mode.
DbCreate(id, schedule) ==
    /\ Op
    /\ FreshId(id)
    /\ LET w == Retained(St, save(Known(St, fs), id, CreatedJob(schedule, 0, now)), fs) IN
         IF fs.degraded THEN UNCHANGED <<jobs, order, yaml, job_state, job_runs, fs>>
         ELSE IF fs.writable THEN SetStore(w.st) /\ fs' = w.f
         ELSE /\ SetStore([w.st EXCEPT !.yaml = yaml])
              /\ fs' = w.f
    /\ UNCHANGED <<exec, now, inflight, deleted>>

NextDb ==
    \/ DbFails
    \/ DbRecovers
    \/ DbTick
    \/ \E i \in 1..NumJobs, s \in {"ok", "failed"} : DbFinishRun(i, s)
    \/ \E id \in JobIds, s \in {EverySchedule(1)} : DbCreate(id, s)
    \/ Advance

SpecDb == InitDb /\ [][NextDb]_vars

-----------------------------------------------------------------------------
(* C35 *)

Recorded(runs, pend, id, s) == RunCounts(runs \cup pend)[id][s]

\* C35: when a write to the state database fails, the run is kept in memory
\* and written on a later tick; failure that persists puts the scheduler
\* into a degraded mode that refuses new jobs and keeps running the
\* existing ones.
C35_RunKeptAndDegraded ==
    [][/\ \A i \in 1..NumJobs, s \in {"ok", "failed"} :
            (DbFinishRun(i, s) /\ i <= Len(inflight)) =>
                LET id == inflight[i].id IN
                /\ Recorded(job_runs', fs'.pending, id, s)
                      = Recorded(job_runs, fs.pending, id, s) + 1
                /\ ~fs.writable => /\ job_runs' = job_runs
                                   /\ RunCounts(fs'.pending)[id][s] = RunCounts(fs.pending)[id][s] + 1
       /\ \A id \in JobIds, s \in RunStatuses :
            Recorded(job_runs', fs'.pending, id, s) >= Recorded(job_runs, fs.pending, id, s)
       /\ (DbTick /\ fs.writable) =>
            /\ ~HasPending(fs')
            /\ \A id \in JobIds, s \in RunStatuses :
                  RunCounts(job_runs')[id][s] >= Recorded(job_runs, fs.pending, id, s)
       /\ fs'.failures >= DegradedAfter => fs'.degraded
       /\ fs.degraded =>
            /\ \A id \in JobIds : DbCreate(id, EverySchedule(1)) => StNext = St
            /\ (DbTick /\ DbRunBudgetLeft) =>
                  \A k \in 1..Len(get_due_jobs(St, now)) :
                      LET id == get_due_jobs(St, now)[k] IN
                      CanStart(inflight, id) => id \in InFlightIds(inflight')]_vars

\* Degraded after two failed writes, the kept run written since, and a run
\* started while degraded.
C35_Witness ==
    /\ fs.pc = "db" /\ fs.degraded /\ fs.flushed > 0 /\ ~HasPending(fs)
    /\ RunCounts(job_runs)[1]["ok"] > 0
    /\ inflight # <<>>
    /\ DOMAIN jobs = {1}
    /\ ops > 0

-----------------------------------------------------------------------------
(* Timer-sleep scenario: the timer sleeps until the earliest next run, at   *)
(* most MaxTickBound, while jobs are created, patched, paused and resumed.  *)
(* exec holds the timer's position: the instant its current sleep ends.     *)

LiveMaxTime == 4
MaxTickBound == 2

Armed(job) ==
    /\ job.enabled
    /\ job.status = "active"
    /\ job.next_run_at_ms # NULL /\ job.next_run_at_ms # 0

get_next_run_time(st) ==
    LET armed == {id \in DOMAIN st.jobs : Armed(st.jobs[id])} IN
    IF armed = {} THEN NULL
    ELSE LET first == CHOOSE id \in armed :
                         \A o \in armed : st.jobs[id].next_run_at_ms <= st.jobs[o].next_run_at_ms
         IN  st.jobs[first].next_run_at_ms

\* The timer that sleeps until the next run however far it is.
SleepTarget_Unbounded(st, now_ms) ==
    IF get_next_run_time(st) = NULL THEN LiveMaxTime + 1 ELSE get_next_run_time(st)

\* The end of the timer's sleep: store.NextRunTime(), subject to the
\* maximum tick bound.
SleepTarget(st, now_ms) ==
    LET t == get_next_run_time(st) IN
    IF t = NULL \/ t > now_ms + MaxTickBound THEN now_ms + MaxTickBound ELSE t

Sleeping(wake_at) == [pc |-> "sleeping", wake_at |-> wake_at]

InitLive ==
    /\ now = 1 /\ inflight = <<>> /\ deleted = {} /\ ops = 0 /\ fs = NoFiles
    /\ \E s1 \in {EverySchedule(1), EverySchedule(3)} :
         LET st == save(initialize(EmptyStore, 1), 1, CreatedJob(s1, 0, 1)) IN
           /\ jobs = st.jobs /\ order = st.order /\ yaml = st.yaml
           /\ job_state = st.job_state /\ job_runs = st.job_runs
           /\ exec = Sleeping(SleepTarget(st, 1))

\* The timer's sleep has ended.  TimerWake can then be taken and changes the
\* state: it starts a job, records a skip or plans a sleep that ends later.
TimerCanWake == exec.pc = "sleeping" /\ now >= exec.wake_at

\* The timer wakes: every due job is handed to the executor or recorded as
\* skipped, then the next sleep is planned.
TimerWake ==
    /\ TimerCanWake
    /\ LET r == TickLoop(get_due_jobs(St, now), St, inflight, now) IN
        /\ SetStore(r.st)
        /\ inflight' = r.infl
        /\ exec' = Sleeping(SleepTarget(r.st, now))
    /\ UNCHANGED <<fs, now, deleted, ops>>

\* The wake-up signal of Create, Patch and Resume: the sleep is shortened
\* when the next run is earlier than its end.
TimerSignal ==
    /\ exec.pc = "sleeping"
    /\ SleepTarget(St, now) < exec.wake_at
    /\ exec' = Sleeping(SleepTarget(St, now))
    /\ UNCHANGED <<fs, now, jobs, order, yaml, job_state, job_runs, inflight, deleted, ops>>

LiveAdvance ==
    /\ now < LiveMaxTime
    /\ now' = now + 1
    /\ UNCHANGED <<exec, fs, jobs, order, yaml, job_state, job_runs, inflight, deleted, ops>>

NextLive ==
    \/ TimerWake
    \/ TimerSignal
    \/ \E i \in 1..NumJobs : FinishRun(i, "ok")
    \/ \E id \in JobIds, s \in {EverySchedule(1)} : CreateJob(id, s, 0)
    \/ \E id \in JobIds : PatchJob(id, [schedule |-> EverySchedule(1)])
    \/ \E id \in JobIds : PauseJob(id)
    \/ \E id \in JobIds : ResumeJob(id)
    \/ LiveAdvance

\* The timer task is scheduled whenever its sleep has ended (weak fairness
\* of TimerWake, written with its enabling condition), and the clock
\* advances.
SpecLive ==
    /\ InitLive /\ [][NextLive]_vars
    /\ WF_vars(LiveAdvance)
    /\ ([]<>(~TimerCanWake) \/ []<><<TimerWake>>_vars)

-----------------------------------------------------------------------------
(* C36 *)

DueNow(id) == id \in DOMAIN jobs /\ IsDue(jobs[id], now)

\* C36: every armed job whose next_run_at_ms is reached is eventually handed
\* to the executor or recorded as skipped (unless an operation pauses or
\* re-schedules it first), also when it was created, patched or resumed with
\* an earlier next_run_at_ms after the timer began its sleep.  Due times
\* less than MaxTickBound - 1 before the end of the modelled time, where
\* the clock may stop before the sleep ends, are left out.
C36_DueEventuallyStarted ==
    /\ [][TimerWake =>
            \A id \in JobIds : DueNow(id) =>
                IF CanStart(inflight, id) THEN id \in InFlightIds(inflight')
                ELSE RunCounts(job_runs')[id]["skipped"] = RunCounts(job_runs)[id]["skipped"] + 1]_vars
    /\ [][\A id \in JobIds :
            (DueNow(id) /\ ~(id \in DOMAIN jobs' /\ IsDue(jobs'[id], now'))) =>
                \/ id \in InFlightIds(inflight)
                \/ TimerWake
                \/ ops' # ops]_vars
    /\ \A id \in JobIds :
          (DueNow(id) /\ jobs[id].next_run_at_ms + MaxTickBound - 1 <= LiveMaxTime)
             ~> (id \in InFlightIds(inflight) \/ ~DueNow(id))

\* A job created with the earliest next run while the timer sleeps until a
\* later instant has been started.
C36_Witness ==
    /\ exec.pc = "sleeping"
    /\ 2 \in InFlightIds(inflight)
    /\ 1 \in DOMAIN jobs /\ jobs[1].schedule = EverySchedule(3)
    /\ jobs[1].run_count = 0
    /\ jobs[2].created_at_ms = 1
    /\ now = 2

-----------------------------------------------------------------------------
(* C38 *)

\* Task i runs a job that a Reload dropped: the task holds the object from
\* before the Reload, the store has no job of that id, and no Delete
\* removed it.
DroppedByReload(i) ==
    /\ i \in 1..Len(inflight)
    /\ inflight[i].detached
    /\ inflight[i].id \notin DOMAIN jobs
    /\ inflight[i].id \notin deleted

\* C38: a job dropped by Reload stays absent: the finalization of its run
\* in flight puts it back neither into the job set nor into the config file
\* nor into job_state.
C38_DroppedStaysAbsent ==
    [][\A i \in 1..(NumJobs + 1), s \in {"ok", "failed"} :
          (FinishRun(i, s) /\ DroppedByReload(i)) =>
              /\ inflight[i].id \notin DOMAIN jobs'
              /\ inflight[i].id \notin FileIds(yaml')
              /\ inflight[i].id \notin DOMAIN job_state']_vars

-----------------------------------------------------------------------------
(* Write-failure scenario: a write of JobStore.save or JobStore.delete      *)
(* raises, at the state database ("db") or at the config file ("yaml").     *)

WriteFailures == {"db", "yaml"}

\* JobStore.save up to the write that raises: the job is in self._jobs
\* before _upsert_state runs, and the row is committed before _write_yaml.
save_failing(st, id, job, fail) ==
    LET is_new == id \notin DOMAIN st.jobs
        mem == [st EXCEPT !.jobs = (id :> job) @@ st.jobs,
                          !.order = IF is_new THEN Append(st.order, id) ELSE st.order]
    IN  IF fail = "db" THEN mem
        ELSE [mem EXCEPT !.job_state = _upsert_state(st.job_state, id, job)]

\* JobStore.delete up to the write that raises: the job has left self._jobs
\* before the DELETEs run, and they are committed before _write_yaml.
delete_failing(st, id, fail) ==
    LET mem == [st EXCEPT !.jobs = [x \in DOMAIN st.jobs \ {id} |-> st.jobs[x]],
                          !.order = SeqRemove(st.order, id)]
    IN  IF fail = "db" THEN mem
        ELSE [mem EXCEPT !.job_state = [x \in DOMAIN st.job_state \ {id} |-> st.job_state[x]],
                         !.job_runs = {r \in st.job_runs : r.job_id # id}]

\* save(job) of a new job, one of its writes raising.
SaveFails(id, schedule, fail) ==
    /\ Op
    /\ FreshId(id)
    /\ SetStore(save_failing(St, id, CreatedJob(schedule, 0, now), fail))
    /\ UNCHANGED <<exec, fs, now, inflight, deleted>>

\* delete(id), one of its writes raising.
DeleteFails(id, fail) ==
    /\ Op
    /\ id \in DOMAIN jobs
    /\ SetStore(delete_failing(St, id, fail))
    /\ inflight' = Detach(inflight, {id}, jobs)
    /\ UNCHANGED <<exec, fs, now, deleted>>

NextFail ==
    \/ \E id \in JobIds, s \in CreateSchedules, f \in WriteFailures : SaveFails(id, s, f)
    \/ \E id \in JobIds, f \in WriteFailures : DeleteFails(id, f)
    \/ \E id \in JobIds, s \in CreateSchedules : CreateJob(id, s, 0)
    \/ \E id \in JobIds, p \in Patches : PatchJob(id, p)
    \/ \E id \in JobIds : DeleteJob(id)
    \/ Restart
    \/ Advance

SpecFail == Init /\ [][NextFail]_vars

-----------------------------------------------------------------------------
(* C39 *)

\* C39: after a write that fails in the middle of save(job) or delete(id),
\* the job set in memory, the job_state table and the config file hold the
\* same job ids, and a restart neither brings a job back nor loses one.
C39_StoresAgreeOnIds ==
    /\ [](DOMAIN jobs = DOMAIN job_state /\ DOMAIN jobs = FileIds(yaml))
    /\ [][Restart => DOMAIN jobs' = DOMAIN jobs]_vars

-----------------------------------------------------------------------------
(* Message router: services/router.py.  exec holds the router: its rules    *)
(* in list order, the last message routed and the agent returned.           *)

MaxRules == 2

\* An Optional field left unset (None); like the empty string it is falsy.
Unset == ""

RoutingRule(agent_id, channel, channel_id, sender_id, priority) ==
    [agent_id |-> agent_id, channel |-> channel, channel_id |-> channel_id,
     sender_id |-> sender_id, priority |-> priority]

Message(channel, channel_id, sender_id) ==
    [channel |-> channel, channel_id |-> channel_id, sender_id |-> sender_id]

default_agent == "main"

\* rules.sort(key=lambda r: -r.priority): the sort is stable, rules of equal
\* priority keep the order they were added in.
RECURSIVE SortByPriority(_)
SortByPriority(rules) ==
    IF rules = <<>> THEN <<>>
    ELSE LET sorted == SortByPriority(SubSeq(rules, 1, Len(rules) - 1))
             last == rules[Len(rules)]
             ahead == {k \in 1..Len(sorted) : sorted[k].priority >= last.priority}
             n == IF ahead = {} THEN 0 ELSE CHOOSE k \in ahead : \A o \in ahead : o <= k
         IN  SubSeq(sorted, 1, n) \o <<last>> \o SubSeq(sorted, n + 1, Len(sorted))

add_rule(rules, rule) == SortByPriority(Append(rules, rule))

RECURSIVE remove_rule(_, _, _)
remove_rule(rules, agent_id, channel) ==
    IF rules = <<>> THEN <<>>
    ELSE LET r == Head(rules)
             rest == remove_rule(Tail(rules), agent_id, channel)
         IN  IF r.agent_id = agent_id /\ (channel = Unset \/ r.channel = channel)
             THEN rest ELSE <<r>> \o rest

_match(message, rule) ==
    IF rule.sender_id # Unset /\ message.sender_id # rule.sender_id THEN FALSE
    ELSE IF rule.channel # Unset /\ message.channel # rule.channel THEN FALSE
    ELSE IF rule.channel_id # Unset /\ message.channel_id # rule.channel_id THEN FALSE
    ELSE TRUE

RECURSIVE route(_, _)
route(rules, message) ==
    IF rules = <<>> THEN default_agent
    ELSE IF _match(message, Head(rules)) THEN Head(rules).agent_id
    ELSE route(Tail(rules), message)

RouterAgents == {"a1", "a2"}
RouterRules ==
    {RoutingRule(a, c, ci, sn, p) :
        a \in RouterAgents, c \in {Unset, "telegram"}, ci \in {Unset, "c1"},
        sn \in {Unset, "s1"}, p \in {0, 1}}
RouterMessages ==
    {Message(c, ci, sn) : c \in {"telegram", "discord"}, ci \in {"c1", "c2"}, sn \in {"s1", "s2"}}

NoMessage == Message(Unset, Unset, Unset)

InitRouter ==
    /\ now = 1 /\ jobs = EmptyStore.jobs /\ order = EmptyStore.order
    /\ yaml = EmptyStore.yaml /\ job_state = EmptyStore.job_state
    /\ job_runs = EmptyStore.job_runs
    /\ inflight = <<>> /\ deleted = {} /\ ops = 0 /\ fs = NoFiles
    /\ exec = [pc |-> "router", rules |-> <<>>, message |-> NoMessage, agent |-> Unset]

RouterFrame ==
    UNCHANGED <<now, jobs, order, yaml, job_state, job_runs, inflight, deleted, ops, fs>>

AddRule(rule) ==
    /\ exec.pc = "router"
    /\ Len(exec.rules) < MaxRules
    /\ exec' = [exec EXCEPT !.rules = add_rule(exec.rules, rule)]
    /\ RouterFrame

RemoveRule(agent_id, channel) ==
    /\ exec.pc = "router"
    /\ exec' = [exec EXCEPT !.rules = remove_rule(exec.rules, agent_id, channel)]
    /\ RouterFrame

Route(message) ==
    /\ exec.pc = "router"
    /\ exec' = [exec EXCEPT !.message = message, !.agent = route(exec.rules, message)]
    /\ RouterFrame

NextRouter ==
    \/ \E rule \in RouterRules : AddRule(rule)
    \/ \E a \in RouterAgents, c \in {Unset, "telegram"} : RemoveRule(a, c)
    \/ \E m \in RouterMessages : Route(m)

SpecRouter == InitRouter /\ [][NextRouter]_vars

-----------------------------------------------------------------------------
(* C40 *)

\* The precedence class of a rule that matches: 3 for a rule with a
\* sender_id, 2 for a rule with channel and channel_id, 1 for a rule with
\* the channel alone, 0 for any other rule.
Precedence(rule) ==
    IF rule.sender_id # Unset THEN 3
    ELSE IF rule.channel # Unset /\ rule.channel_id # Unset THEN 2
    ELSE IF rule.channel # Unset THEN 1
    ELSE 0

Matching(rules, message) == {k \in 1..Len(rules) : _match(message, rules[k])}

\* C40: route returns the agent of a matching rule of the highest
\* precedence (sender_id, then channel with channel_id, then channel), and
\* the default agent when no rule matches.
C40_RoutePrecedence ==
    [][\A m \in RouterMessages : Route(m) =>
          LET matching == Matching(exec.rules, m) IN
          IF matching = {} THEN exec'.agent = default_agent
          ELSE \E k \in matching :
                  /\ \A o \in matching : Precedence(exec.rules[o]) <= Precedence(exec.rules[k])
                  /\ exec'.agent = exec.rules[k].agent_id]_vars

=============================================================================
